---- MODULE Spec2Model ----
(***************************************************************************)
(* Transcription editor (src/app): the sample-buffer splice, the           *)
(* transcript selection to time-range mapping, the waveform viewport and   *)
(* the session controller (MainWindow).                                    *)
(*                                                                         *)
(* Times are whole milliseconds.  Sample rates are small whole numbers of  *)
(* frames per second, so that a buffer of a few frames lasts a few         *)
(* seconds.  A buffer is [nch |-> columns of the array, data |-> frames].  *)
(***************************************************************************)
EXTENDS Integers, Sequences, FiniteSets, TLC

\* ------------------------------------------------------------------ bounds
MaxBase == 3
MaxIns == 2
MaxTimeStep == 7
MaxSegs == 2
MaxText == 4
MaxViewOps == 3
WidgetWidth == 4
MaxFrames == 3
MaxPending == 1
MaxSteps == 8
MaxEditSteps == 4
MaxCaptures == 2
MaxChunks == 2
MaxPlaySteps == 4
MaxFlightSteps == 5
MaxPcmBits == 4
MaxArmSteps == 6

\* ----------------------------------------------------------------- helpers
\* a call that raised: the exception in place of the returned array
ValueError == [error |-> "ValueError"]
\* no array yet
NoBuffer == [absent |-> TRUE]

Min(a, b) == IF a <= b THEN a ELSE b
Max(a, b) == IF a >= b THEN a ELSE b

\* clamp as the specification writes it: x brought into [lo, hi]
Clamp(x, lo, hi) == IF x < lo THEN lo ELSE IF x > hi THEN hi ELSE x

SeqsUpTo(S, n) == UNION {[1..k -> S] : k \in 0..n}

SampleValues == {0, 1}
Channels == {1, 2}
SampleRates == {1, 2}

Buffer(c, d) == [nch |-> c, data |-> d]

\* Python 3 round() of the rational n/d (d > 0): to nearest, ties to even
PyRound(n, d) ==
    LET q == n \div d
        r == n % d
    IN  IF 2 * r < d THEN q
        ELSE IF 2 * r > d THEN q + 1
        ELSE IF q % 2 = 0 THEN q ELSE q + 1

\* len(audio) / sample_rate, in milliseconds (the product split so that it
\* stays inside TLC's 32-bit integers)
DurationMs(len, rate) ==
    (len \div rate) * 1000 + ((len % rate) * 1000) \div rate

\* <<q, r>> with a * b = q * c + r and 0 <= r < c, for a, b >= 0 and c > 0,
\* by halving a: no intermediate value exceeds 3 * c and the quotient
RECURSIVE MulDivRem(_, _, _)
MulDivRem(a, b, c) ==
    IF a = 0 THEN <<0, 0>>
    ELSE LET h == MulDivRem(a \div 2, b, c)
             e == a % 2
             rs == 2 * h[2] + e * (b % c)
         IN  <<2 * h[1] + e * (b \div c) + rs \div c, rs % c>>

\* a * b / c, rounded toward zero
MulDiv(a, b, c) ==
    IF a < 0 THEN 0 - MulDivRem(0 - a, b, c)[1] ELSE MulDivRem(a, b, c)[1]

\* ------------------------------------------------- audio_editor.py: splice
seconds_to_frames(seconds, sample_rate) ==
    Max(0, PyRound(seconds * sample_rate, 1000))

\* start_idx clamped to the last frame in place of the length
splice_start_idx_last_frame(base_len, sample_rate, start_sec) ==
    Min(Max(seconds_to_frames(start_sec, sample_rate), 0), Max(base_len - 1, 0))

splice_start_idx(base_len, sample_rate, start_sec) ==
    Min(Max(seconds_to_frames(start_sec, sample_rate), 0), base_len)

splice_end_idx_unordered(base_len, sample_rate, start_sec, end_sec) ==
    Min(Max(seconds_to_frames(end_sec, sample_rate), 0), base_len)

splice_end_idx(base_len, sample_rate, start_sec, end_sec) ==
    Min(Max(seconds_to_frames(end_sec, sample_rate),
            splice_start_idx(base_len, sample_rate, start_sec)),
        base_len)

\* np.concatenate([a, b], axis=0) of two 2-D arrays: raises ValueError unless
\* both have the same number of columns, also when one of them has no rows
np_concatenate(a, b) ==
    IF a.nch # b.nch THEN ValueError ELSE Buffer(a.nch, a.data \o b.data)

\* base_audio[lo:hi], a slice of rows: the columns stay
rows(a, lo, hi) == Buffer(a.nch, SubSeq(a.data, lo + 1, hi))

splice_audio(base_audio, sample_rate, start_sec, end_sec, insert_audio) ==
    LET n == Len(base_audio.data)
        start_idx == splice_start_idx(n, sample_rate, start_sec)
        end_idx == splice_end_idx(n, sample_rate, start_sec, end_sec)
        prefix == rows(base_audio, 0, start_idx)
        suffix == rows(base_audio, end_idx, n)
        head == np_concatenate(prefix, insert_audio)
    IN  IF head = ValueError THEN ValueError ELSE np_concatenate(head, suffix)

\* the array the caller passed as base_audio, after the call: splice_audio
\* only takes views and slices of it and concatenates into a new array
splice_base_overwritten(base_audio, sample_rate, start_sec, end_sec, insert_audio) ==
    LET r == splice_audio(base_audio, sample_rate, start_sec, end_sec, insert_audio)
    IN  IF r = ValueError THEN base_audio ELSE r

splice_base_after(base_audio, sample_rate, start_sec, end_sec, insert_audio) ==
    base_audio

splice_insert_after(base_audio, sample_rate, start_sec, end_sec, insert_audio) ==
    insert_audio

\* ------------------------------------------ apple_speech.py: the transcript
\* a WordSegment without its text; a TranscriptionResult with the length of
\* its text in place of the text
WordSegment(start_sec, duration_sec, char_start, char_length) ==
    [start_sec |-> start_sec, duration_sec |-> duration_sec,
     char_start |-> char_start, char_length |-> char_length]

TranscriptionResult(text_len, segments) ==
    [text_len |-> text_len, segments |-> segments]

NoTranscription == [absent |-> TRUE]

\* main.py: SessionAudio, and self.session = None
SessionAudio(audio, sample_rate, channels) ==
    [audio |-> audio, sample_rate |-> sample_rate, channels |-> channels]

NoSession == [absent |-> TRUE]

\* len(self.session.audio) / self.session.sample_rate
session_duration(session) ==
    DurationMs(Len(session.audio.data), session.sample_rate)

\* ----------------------------------------- main.py: _selection_to_time
\* Optional[Tuple[float, float]]: None is the empty tuple; a time that is
\* None inside the tuple is NoTime
NoRange == <<>>
NoTime == 0 - 1

seg_end_char(seg) == seg.char_start + seg.char_length

\* "end <= seg_end_char" of the loop, with "<" in its place
end_reached_strict(end, seg) == end < seg_end_char(seg)

\* "start < seg_end_char" of the loop, with "<=" in its place
start_reached_inclusive(start, seg) == start <= seg_end_char(seg)

start_reached(start, seg) == start < seg_end_char(seg)

end_reached(end, seg) == end <= seg_end_char(seg)

\* the for loop over the segments, from segment i on, with its break
RECURSIVE segment_loop(_, _, _, _, _, _)
segment_loop(segments, i, start, end, start_t, end_t) ==
    IF i > Len(segments) THEN <<start_t, end_t>>
    ELSE LET seg == segments[i]
             st == IF start_t = NoTime /\ start_reached(start, seg)
                   THEN seg.start_sec ELSE start_t
         IN  IF end_t = NoTime /\ end_reached(end, seg)
             THEN <<st, seg.start_sec + seg.duration_sec>>
             ELSE segment_loop(segments, i + 1, start, end, st, end_t)

selection_to_time(transcription, session, selectionStart, selectionEnd) ==
    IF transcription = NoTranscription THEN NoRange
    ELSE LET start == Min(selectionStart, selectionEnd)
             end == Max(selectionStart, selectionEnd)
             found == segment_loop(transcription.segments, 1, start, end, NoTime, NoTime)
             start_t == IF found[1] = NoTime THEN 0 ELSE found[1]
             end_t == IF found[2] = NoTime /\ session # NoSession
                      THEN session_duration(session) ELSE found[2]
         IN  IF start = end THEN NoRange ELSE <<start_t, end_t>>

\* --------------------------------------------- waveform_view.py: viewport
\* _view_dur is Optional[float]: None is NoTime.  The widget's _audio enters
\* only through len(): it is held as its number of frames (None as 0 frames)
wf_duration_of(frames, sr) ==
    IF sr <= 0 THEN 0 ELSE DurationMs(frames, sr)

visible_range(dur, view_start, view_dur) ==
    IF dur <= 0 THEN <<0, 0>>
    ELSE IF view_dur = NoTime \/ view_dur <= 0 \/ view_dur >= dur THEN <<0, dur>>
    ELSE LET start == Max(0, Min(view_start, Max(0, dur - view_dur)))
         IN  <<start, Min(dur, start + view_dur)>>

\* _clamp_view with the line that clamps _view_start left out
clamp_view_start_unclamped(dur, view_start, view_dur) ==
    IF dur <= 0 THEN <<0, NoTime>>
    ELSE IF view_dur # NoTime
         THEN <<view_start, Max(Min(view_dur, dur), Min(100, dur))>>
         ELSE <<0, NoTime>>

\* _clamp_view: the pair <<_view_start, _view_dur>> it leaves
clamp_view(dur, view_start, view_dur) ==
    IF dur <= 0 THEN <<0, NoTime>>
    ELSE IF view_dur # NoTime
         THEN LET vd == Max(Min(view_dur, dur), Min(100, dur))
              IN  <<Max(0, Min(view_start, dur - vd)), vd>>
         ELSE <<0, NoTime>>

\* np.clip(a, lo, hi) = minimum(maximum(a, lo), hi)
np_clip(a, lo, hi) == Min(Max(a, lo), hi)

\* _time_at_x with the position x / width not clipped to [0, 1]
time_at_x_unclipped(x, width, dur, view_start, view_dur) ==
    IF dur <= 0 THEN 0
    ELSE LET r == visible_range(dur, view_start, view_dur)
             vr == Max(0, r[2] - r[1])
             w == Max(1, width)
         IN  r[1] + (x * vr) \div w

\* _time_at_x: pos = clip(x / max(1, width), 0, 1) is kept as the fraction
\* np_clip(x, 0, w) / w
time_at_x(x, width, dur, view_start, view_dur) ==
    IF dur <= 0 THEN 0
    ELSE LET r == visible_range(dur, view_start, view_dur)
             vr == Max(0, r[2] - r[1])
             w == Max(1, width)
         IN  r[1] + (np_clip(x, 0, w) * vr) \div w

\* _x_at_time: vr = max(1e-9, ve - vs), pos = clip((t - vs) / vr, 0, 1),
\* int(pos * w).  With ve - vs = 0 the quotient by 1e-9 clips to 1 for every
\* t > vs (a millisecond is far above 1e-9 s) and to 0 otherwise
x_at_time(t, w, dur, view_start, view_dur) ==
    LET r == visible_range(dur, view_start, view_dur)
        vr == r[2] - r[1]
    IN  IF vr <= 0 THEN (IF t > r[1] THEN w ELSE 0)
        ELSE (np_clip(t - r[1], 0, vr) * w) \div vr

\* "if self._view_dur is None: self._view_dur = vr; self._view_start = vs"
view_initialized(dur, view_start, view_dur) ==
    IF view_dur = NoTime
    THEN <<visible_range(dur, view_start, view_dur)[1], dur>>
    ELSE <<view_start, view_dur>>

\* the zoom both wheelEvent and _handle_gesture do: the view duration times
\* num/den, clipped to [min(floor, dur), dur], the cursor time kept at its
\* relative place, then _clamp_view
zoom_view(dur, view_start, view_dur, x, width, num, den, floor_ms) ==
    LET v == view_initialized(dur, view_start, view_dur)
        cursor_t == time_at_x(x, width, dur, v[1], v[2])
        new_dur == np_clip((v[2] * num) \div den, Min(floor_ms, dur), dur)
        new_start == cursor_t - MulDiv(cursor_t - v[1], new_dur, Max(1, v[2]))
    IN  clamp_view(dur, new_start, new_dur)

\* wheelEvent with Ctrl/Cmd held: factor 0.95 for a positive delta, else 1.05
wheel_zoom(dur, view_start, view_dur, x, width, delta) ==
    IF dur <= 0 THEN <<view_start, view_dur>>
    ELSE zoom_view(dur, view_start, view_dur, x, width,
                   IF delta > 0 THEN 95 ELSE 105, 100, 50)

\* wheelEvent without modifier: step = (px / 300) * view_dur if px, else
\* (ax / 120) * 0.03 * view_dur
wheel_pan(dur, view_start, view_dur, px, ax) ==
    IF dur <= 0 THEN <<view_start, view_dur>>
    ELSE LET v == view_initialized(dur, view_start, view_dur)
             step == IF px # 0 THEN (px * v[2]) \div 300
                     ELSE (ax * 3 * v[2]) \div 12000
         IN  clamp_view(dur, v[1] - step, v[2])

\* _handle_gesture: the pinch's scaleFactor is scale_pct / 100
handle_gesture(dur, view_start, view_dur, x, width, scale_pct) ==
    IF dur <= 0 THEN <<view_start, view_dur>>
    ELSE zoom_view(dur, view_start, view_dur, x, width,
                   100, IF scale_pct <= 0 THEN 100 ELSE scale_pct, 100)

\* ------------------------------------------ main.py: the session controller
\* The state of MainWindow, its text edit, its recorder and its WaveformView
\* as one record, so that a handler that calls another handler is the
\* composition of two operators.  Fields:
\*   session, transcription, selection_time      MainWindow attributes
\*   rerecord_active, rerecord_range             MainWindow._rerecord_*
\*   text_len, text_sel                          text_edit: length of the text,
\*                                               <<selectionStart, selectionEnd>>
\*   recording                                   recorder._stream is not None
\*   pending                                     QTimer.singleShot calls not yet fired
\*   cursor_time, wf_sel, dragging, word_items   WaveformView._cursor_time,
\*                                               (_sel_start, _sel_end), _dragging, _word_items
\*   wf_frames, wf_sr, view_start, view_dur      WaveformView: len(_audio), _sr, _view_*

\* WaveformView.set_audio without "self._view_start = 0.0; self._view_dur = None"
set_audio_keeps_view(s, audio, sample_rate) ==
    [s EXCEPT !.wf_frames = Len(audio.data), !.wf_sr = sample_rate,
              !.cursor_time = 0, !.wf_sel = NoRange]

\* WaveformView.set_audio
set_audio(s, audio, sample_rate) ==
    [s EXCEPT !.wf_frames = Len(audio.data), !.wf_sr = sample_rate,
              !.cursor_time = 0, !.wf_sel = NoRange,
              !.view_start = 0, !.view_dur = NoTime]

\* WaveformView.set_cursor_time
set_cursor_time(s, time_sec) == [s EXCEPT !.cursor_time = Max(0, time_sec)]

\* WaveformView.set_selection
set_selection(s, range) == [s EXCEPT !.wf_sel = range]

\* WaveformView.set_transcript
set_transcript(s, words) == [s EXCEPT !.word_items = words]

\* MainWindow.on_selection_changed, the slot of text_edit.cursorPositionChanged
on_selection_changed(s) ==
    LET range == selection_to_time(s.transcription, s.session, s.text_sel[1], s.text_sel[2])
    IN  set_selection([s EXCEPT !.selection_time = range],
                      IF range # NoRange /\ s.session # NoSession THEN range ELSE NoRange)

\* text_edit.setPlainText / text_edit.clear: the new document has the cursor
\* at 0 with nothing selected, and Qt emits cursorPositionChanged
setPlainText(s, text_len) ==
    on_selection_changed([s EXCEPT !.text_len = text_len, !.text_sel = <<0, 0>>])

\* the (start, end, text) triples pushed to the waveform, without the text
words_of(res) ==
    [i \in 1..Len(res.segments) |->
        <<res.segments[i].start_sec,
          res.segments[i].start_sec + res.segments[i].duration_sec>>]

\* TranscriptionResult(text="[no speaking detected]", segments=[]): any
\* non-empty selection inside the placeholder maps alike, so its text is
\* held as one character
Placeholder == TranscriptionResult(1, <<>>)

\* what transcribe_file does: it raises, or returns a result
Raises == [kind |-> "raise"]
Returns(res) == [kind |-> "result", res |-> res]

\* The recognizer is outside the program: what it hears in audio of a given
\* duration is one of a few results.  "one": a word over the whole audio;
\* "two": a word over the first second, a word over the rest, and a full stop
\* after it; "none": no text; "raise": an error or a timeout.
Hearings == {"raise", "none", "one", "two"}

transcribe_file(dur, heard) ==
    IF heard = "raise" THEN Raises
    ELSE IF heard = "none" \/ dur <= 0 THEN Returns(TranscriptionResult(0, <<>>))
    ELSE IF heard = "one" \/ dur < 2000
    THEN Returns(TranscriptionResult(1, <<WordSegment(0, dur, 0, 1)>>))
    ELSE Returns(TranscriptionResult(3, <<WordSegment(0, 1000, 0, 1),
                                          WordSegment(1000, dur - 1000, 1, 1)>>))

\* MainWindow.on_transcribe with its "except Exception" branch leaving the
\* transcript as it was
on_transcribe_keeps_on_error(s, has_apple, heard) ==
    IF ~has_apple THEN s
    ELSE IF s.session = NoSession THEN s
    ELSE LET outcome == transcribe_file(session_duration(s.session), heard) IN
         IF outcome.kind = "raise" THEN s
         ELSE IF outcome.res.text_len = 0
    THEN setPlainText([s EXCEPT !.transcription = Placeholder], Placeholder.text_len)
    ELSE LET s1 == setPlainText([s EXCEPT !.transcription = outcome.res],
                                outcome.res.text_len)
         IN  IF outcome.res.segments # <<>>
             THEN set_transcript(s1, words_of(outcome.res))
             ELSE s1

\* MainWindow.on_transcribe; a text of length 0 is one that strips to ""
on_transcribe(s, has_apple, heard) ==
    IF ~has_apple THEN s
    ELSE IF s.session = NoSession THEN s
    ELSE LET outcome == transcribe_file(session_duration(s.session), heard) IN
         IF outcome.kind = "raise" \/ outcome.res.text_len = 0
    THEN setPlainText([s EXCEPT !.transcription = Placeholder], Placeholder.text_len)
    ELSE LET s1 == setPlainText([s EXCEPT !.transcription = outcome.res],
                                outcome.res.text_len)
         IN  IF outcome.res.segments # <<>>
             THEN set_transcript(s1, words_of(outcome.res))
             ELSE s1

\* MainWindow._final_transcribe_if_ready, run by the single-shot timer
final_transcribe_if_ready(s, has_apple, heard) ==
    IF has_apple /\ s.session # NoSession /\ Len(s.session.audio.data) > 0
    THEN on_transcribe(s, has_apple, heard)
    ELSE s

\* clip[:, 0] if clip.ndim == 2 else clip, then [:, None] in splice_audio
mono(audio) == Buffer(1, audio.data)

\* on_stop, "if self._rerecord_active:" with the recorder recording
stop_rerecord(s, has_apple, clip, heard) ==
    LET s1 == [s EXCEPT !.recording = FALSE]
        new_audio == splice_audio(s1.session.audio, s1.session.sample_rate,
                                  s1.rerecord_range[1], s1.rerecord_range[2], mono(clip))
        s2 == [s1 EXCEPT !.session.audio = new_audio]
        s3 == set_cursor_time(set_audio(s2, new_audio, s2.session.sample_rate),
                              s1.rerecord_range[1])
        s4 == [s3 EXCEPT !.rerecord_active = FALSE, !.rerecord_range = NoRange]
    IN  IF s1.session = NoSession \/ s1.rerecord_range = NoRange
        THEN [s1 EXCEPT !.rerecord_active = FALSE, !.rerecord_range = NoRange]
        ELSE IF new_audio = ValueError THEN s1
        ELSE on_transcribe(s4, has_apple, heard)

\* "cursor >= (dur - 0.05)" of on_stop, with the threshold in milliseconds
cursor_at_end(s) == s.cursor_time >= session_duration(s.session) - 50

\* on_stop, "if self.recorder.is_recording():" of the un-armed path: the
\* state, and whether the clip was appended; "raised" when np.concatenate does
stop_primary(s, clip, sr) ==
    LET s1 == [s EXCEPT !.recording = FALSE]
        fresh == [s1 EXCEPT !.session = SessionAudio(clip, sr, 1)]
        joined == np_concatenate(s1.session.audio, clip)
    IN  IF s1.session = NoSession
        THEN [state |-> fresh, appended |-> FALSE, raised |-> FALSE]
        ELSE IF Len(s1.session.audio.data) = 0
        THEN [state |-> fresh, appended |-> FALSE, raised |-> FALSE]
        ELSE IF cursor_at_end(s1)
        THEN IF joined = ValueError
             THEN [state |-> s1, appended |-> FALSE, raised |-> TRUE]
             ELSE [state |-> [s1 EXCEPT !.session.audio = joined],
                   appended |-> TRUE, raised |-> FALSE]
        ELSE [state |-> fresh, appended |-> FALSE, raised |-> FALSE]

\* on_stop from "if self.session is not None:" on
stop_refresh(s, appended, has_apple, heard) ==
    IF s.session = NoSession THEN s
    ELSE LET s1 == set_cursor_time(set_audio(s, s.session.audio, s.session.sample_rate),
                                   session_duration(s.session))
         IN  IF appended THEN on_transcribe(s1, has_apple, heard)
             ELSE [s1 EXCEPT !.pending = @ + 1]

\* MainWindow.on_stop; clip and sr are what recorder.stop() returns
on_stop(s, has_apple, clip, sr, heard) ==
    IF s.rerecord_active
    THEN IF s.recording THEN stop_rerecord(s, has_apple, clip, heard) ELSE s
    ELSE IF s.recording
         THEN LET p == stop_primary(s, clip, sr)
              IN  IF p.raised THEN p.state
                  ELSE stop_refresh(p.state, p.appended, has_apple, heard)
         ELSE stop_refresh(s, FALSE, has_apple, heard)

\* on_record, "if auto_range is not None:"
arm_if_selected(s, auto_range) ==
    IF auto_range # NoRange
    THEN [s EXCEPT !.rerecord_active = TRUE, !.rerecord_range = auto_range]
    ELSE s

\* MainWindow.on_record without "if self.recorder.is_recording(): on_stop()"
on_record_no_toggle(s, has_apple, start_ok, clip, sr, heard) ==
    LET s1 == arm_if_selected(s, selection_to_time(s.transcription, s.session,
                                                   s.text_sel[1], s.text_sel[2]))
    IN  IF start_ok THEN [s1 EXCEPT !.recording = TRUE] ELSE s1

\* MainWindow.on_record; start_ok is whether recorder.start() returns
on_record(s, has_apple, start_ok, clip, sr, heard) ==
    IF s.recording THEN on_stop(s, has_apple, clip, sr, heard)
    ELSE LET s1 == arm_if_selected(s, selection_to_time(s.transcription, s.session,
                                                        s.text_sel[1], s.text_sel[2]))
         IN  IF start_ok THEN [s1 EXCEPT !.recording = TRUE] ELSE s1

\* MainWindow.on_waveform_selection without its "if start == end" test
waveform_selection_unchecked(s, start, end) ==
    [s EXCEPT !.selection_time = <<Min(start, end), Max(start, end)>>]

\* MainWindow.on_waveform_selection, the slot of waveform.selectionChanged
on_waveform_selection(s, start, end) ==
    IF start = end THEN [s EXCEPT !.selection_time = NoRange]
    ELSE [s EXCEPT !.selection_time = <<Min(start, end), Max(start, end)>>]

\* MainWindow.on_scrub, the slot of waveform.scrubbed
on_scrub(s, time_sec) == set_cursor_time(s, time_sec)

wf_duration(s) == wf_duration_of(s.wf_frames, s.wf_sr)

\* WaveformView.mousePressEvent with the left button at pixel x
mousePressEvent(s, x, width) ==
    IF wf_duration(s) <= 0 THEN s
    ELSE LET t == time_at_x(x, width, wf_duration(s), s.view_start, s.view_dur)
             s1 == [s EXCEPT !.cursor_time = t, !.dragging = TRUE, !.wf_sel = <<t, t>>]
         IN  on_scrub(on_waveform_selection(s1, t, t), t)

\* WaveformView.mouseMoveEvent at pixel x.  _sel_end is assigned first; with
\* _sel_start None (set_audio or set_selection ran during the drag) min()
\* then raises and nothing is emitted
mouseMoveEvent(s, x, width) ==
    IF ~s.dragging \/ wf_duration(s) <= 0 THEN s
    ELSE LET t == time_at_x(x, width, wf_duration(s), s.view_start, s.view_dur)
             sel_start == IF s.wf_sel = NoRange THEN NoTime ELSE s.wf_sel[1]
             s1 == [s EXCEPT !.wf_sel = <<sel_start, t>>]
         IN  IF sel_start = NoTime THEN s1
             ELSE on_waveform_selection(s1, Min(sel_start, t), Max(sel_start, t))

\* WaveformView.mouseReleaseEvent
mouseReleaseEvent(s) == [s EXCEPT !.dragging = FALSE]

\* MainWindow.on_skip_end
on_skip_end(s) ==
    IF s.session = NoSession THEN s
    ELSE set_cursor_time(s, session_duration(s.session))

\* _delete_selection: "sel = self.selection_time or self._selection_to_time()"
delete_range(s) ==
    IF s.selection_time # NoRange THEN s.selection_time
    ELSE selection_to_time(s.transcription, s.session, s.text_sel[1], s.text_sel[2])

\* "if end_sec <= start_sec: return" of _delete_selection, left out
delete_any_range(sel) == FALSE

\* "if end_sec <= start_sec: return" of _delete_selection
delete_range_empty(sel) == sel[2] <= sel[1]

\* MainWindow._delete_selection, run by the Delete and Backspace keys
delete_selection(s, has_apple, heard) ==
    IF s.session = NoSession THEN s
    ELSE LET sel == delete_range(s)
             new_audio == splice_audio(s.session.audio, s.session.sample_rate,
                                       sel[1], sel[2], Buffer(1, <<>>))
             s1 == [s EXCEPT !.session.audio = new_audio]
             s2 == set_audio(s1, new_audio, s1.session.sample_rate)
             s3 == set_cursor_time(set_selection(s2, NoRange), sel[1])
         IN  IF sel = NoRange THEN s
             ELSE IF delete_range_empty(sel) THEN s
             ELSE IF new_audio = ValueError THEN s
             ELSE on_transcribe([s3 EXCEPT !.selection_time = NoRange], has_apple, heard)

\* load_wav: what the file decodes to, or the error wave.open raises.  A
\* mono file gives a one-dimensional array, which splice_audio, on_stop and
\* set_audio all treat as one column
Unreadable == [error |-> "wave.Error"]
WavFile(audio, sample_rate) ==
    [audio |-> audio, sample_rate |-> sample_rate, channels |-> audio.nch]

\* MainWindow._load_audio_file, run by on_import_audio and dropEvent
load_audio_file(s, file, has_apple, heard) ==
    IF file = Unreadable THEN s
    ELSE LET s1 == [s EXCEPT !.session = SessionAudio(file.audio, file.sample_rate,
                                                      file.channels)]
             s2 == set_cursor_time(set_audio(s1, file.audio, file.sample_rate), 0)
         IN  on_transcribe(s2, has_apple, heard)

\* MainWindow.on_clear; confirmed is the answer to "Delete all audio and
\* transcript?"
on_clear(s, confirmed) ==
    LET has_audio == s.session # NoSession /\ Len(s.session.audio.data) > 0
        has_text == s.text_len > 0
        s1 == [s EXCEPT !.recording = FALSE, !.session = NoSession,
                        !.transcription = NoTranscription, !.selection_time = NoRange]
        s2 == set_transcript(set_selection(setPlainText(s1, 0), NoRange), <<>>)
    IN  IF ~(has_audio \/ has_text) THEN s
        ELSE IF ~confirmed THEN s
        ELSE set_cursor_time(set_audio(s2, Buffer(1, <<>>), 44100), 0)

\* WaveformView._handle_gesture on the controller's waveform
pinch(s, x, width, scale_pct) ==
    LET v == handle_gesture(wf_duration(s), s.view_start, s.view_dur, x, width, scale_pct)
    IN  [s EXCEPT !.view_start = v[1], !.view_dur = v[2]]

\* WaveformView.mouseDoubleClickEvent
mouseDoubleClickEvent(s) == [s EXCEPT !.view_start = 0, !.view_dur = NoTime]

\* ---------------------------------------------------------------- variables
VARIABLES
    sp_base, sp_rate, sp_start, sp_end, sp_insert,  \* arguments of a splice call
    sp_base0, sp_insert0,                           \* the arguments as passed
    sp_out,                                         \* NoBuffer before the call
    st_transcription, st_session,                   \* state read by _selection_to_time
    st_selectionStart, st_selectionEnd,             \* the text cursor's selection
    st_called, st_out,                              \* the call's result
    wf_frames, wf_sr,                               \* WaveformView: len(_audio), _sr
    wf_view_start, wf_view_dur,                     \* _view_start, _view_dur
    wf_last,                                        \* the last viewport gesture
    wf_ops,                                         \* gestures so far
    session, transcription, selection_time,         \* MainWindow attributes
    rerecord_active, rerecord_range,                \* MainWindow._rerecord_*
    text_len, text_sel,                             \* the text edit and its cursor
    recording,                                      \* recorder.is_recording()
    pending,                                        \* single-shot timers not yet fired
    cursor_time, wf_sel, dragging, word_items,      \* WaveformView attributes
    apple,                                          \* self.apple is not None
    last,                                           \* the last command and what it did
    steps,                                          \* commands so far
    rc_stream,                                      \* AudioRecorder._stream
    rc_q,                                           \* _frames_q
    rc_buffer,                                      \* _buffer
    rc_stop_event,                                  \* _stop_event.is_set()
    rc_pc, rc_frames,                               \* each collector thread: its position, its "frames"
    rc_main,                                        \* the position of the thread calling start and stop
    rc_caps,                                        \* collector threads started so far
    rc_chunks,                                      \* chunks the input stream has delivered so far
    rc_sent, rc_late,                               \* chunks of this capture put before, and during, stop()
    rc_out,                                         \* what the last stop() returned
    rc_last,                                        \* the last call and its outcome
    play_stream, play_timer,                        \* MainWindow._play_stream, _play_timer.isActive()
    play_audio, play_sr, play_frame,                \* _play_audio, _play_sr, _play_frame
    flight,                                         \* the calls of transcribe_file not yet returned
    pcm_in, pcm_by, pcm_out                         \* a sample, the encoder it went through, its PCM16 value

sp_vars == <<sp_base, sp_rate, sp_start, sp_end, sp_insert, sp_base0, sp_insert0, sp_out>>
st_vars == <<st_transcription, st_session, st_selectionStart, st_selectionEnd, st_called, st_out>>

wf_vars == <<wf_frames, wf_sr, wf_view_start, wf_view_dur, wf_last, wf_ops>>

mw_vars == <<session, transcription, selection_time, rerecord_active, rerecord_range,
             text_len, text_sel, recording, pending, cursor_time, wf_sel, dragging,
             word_items, apple, last, steps>>

rc_vars == <<rc_stream, rc_q, rc_buffer, rc_stop_event, rc_pc, rc_frames, rc_main,
             rc_caps, rc_chunks, rc_sent, rc_late, rc_out, rc_last>>

pb_vars == <<play_stream, play_timer, play_audio, play_sr, play_frame>>

fl_vars == <<flight>>

pcm_vars == <<pcm_in, pcm_by, pcm_out>>

ext_vars == <<rc_vars, pb_vars, fl_vars, pcm_vars>>

vars == <<sp_vars, st_vars, wf_vars, mw_vars, ext_vars>>

SpliceTimes == {k * 500 : k \in -1..MaxTimeStep}
BaseBuffers == {Buffer(c, d) : c \in Channels, d \in SeqsUpTo(SampleValues, MaxBase)}
InsertBuffers == {Buffer(c, d) : c \in Channels, d \in SeqsUpTo(SampleValues, MaxIns)}

\* ------------------------------------------------------ SpecSplice: splice
SpliceIdle ==
    /\ sp_base = Buffer(1, <<>>)
    /\ sp_rate = 1
    /\ sp_start = 0
    /\ sp_end = 0
    /\ sp_insert = Buffer(1, <<>>)
    /\ sp_base0 = sp_base
    /\ sp_insert0 = sp_insert
    /\ sp_out = NoBuffer

SelIdle ==
    /\ st_transcription = NoTranscription
    /\ st_session = NoSession
    /\ st_selectionStart = 0
    /\ st_selectionEnd = 0
    /\ st_called = FALSE
    /\ st_out = NoRange

NoGesture == [op |-> "none"]

ViewIdle ==
    /\ wf_frames = 0
    /\ wf_sr = 44100
    /\ wf_view_start = 0
    /\ wf_view_dur = NoTime
    /\ wf_last = NoGesture
    /\ wf_ops = 0

NoCommand == [cmd |-> "none"]

Collectors == 1..MaxCaptures

\* AudioRecorder.__init__
RecorderIdle ==
    /\ rc_stream = "none"
    /\ rc_q = <<>>
    /\ rc_buffer = NoBuffer
    /\ rc_stop_event = FALSE
    /\ rc_pc = [t \in Collectors |-> "unborn"]
    /\ rc_frames = [t \in Collectors |-> <<>>]
    /\ rc_main = "idle"
    /\ rc_caps = 0
    /\ rc_chunks = 0
    /\ rc_sent = <<>>
    /\ rc_late = <<>>
    /\ rc_out = NoBuffer
    /\ rc_last = NoCommand

\* MainWindow.__init__: the playback attributes
PlaybackIdle ==
    /\ play_stream = "none"
    /\ play_timer = FALSE
    /\ play_audio = NoBuffer
    /\ play_sr = 0
    /\ play_frame = 0

\* no sample encoded
PcmIdle == pcm_in = 0 /\ pcm_by = "none" /\ pcm_out = 0

ExtIdle == RecorderIdle /\ PlaybackIdle /\ flight = <<>> /\ PcmIdle

\* MainWindow.__init__ and WaveformView.__init__
ControllerIdle ==
    /\ session = NoSession
    /\ transcription = NoTranscription
    /\ selection_time = NoRange
    /\ rerecord_active = FALSE
    /\ rerecord_range = NoRange
    /\ text_len = 0
    /\ text_sel = <<0, 0>>
    /\ recording = FALSE
    /\ pending = 0
    /\ cursor_time = 0
    /\ wf_sel = NoRange
    /\ dragging = FALSE
    /\ word_items = <<>>
    /\ last = NoCommand
    /\ steps = 0

SpliceInit ==
    /\ apple = TRUE
    /\ ExtIdle
    /\ SelIdle
    /\ ViewIdle
    /\ ControllerIdle
    /\ sp_base \in BaseBuffers
    /\ sp_insert \in InsertBuffers
    /\ sp_rate \in SampleRates
    /\ \/ sp_start \in SpliceTimes /\ sp_end \in SpliceTimes
       \* the caller appends: both times are the duration of the base
       \/ /\ sp_start = DurationMs(Len(sp_base.data), sp_rate)
          /\ sp_end = sp_start
    /\ sp_base0 = sp_base
    /\ sp_insert0 = sp_insert
    /\ sp_out = NoBuffer

SpliceCall ==
    /\ sp_out = NoBuffer
    /\ sp_out' = splice_audio(sp_base, sp_rate, sp_start, sp_end, sp_insert)
    /\ sp_base' = splice_base_after(sp_base, sp_rate, sp_start, sp_end, sp_insert)
    /\ sp_insert' = splice_insert_after(sp_base, sp_rate, sp_start, sp_end, sp_insert)
    /\ UNCHANGED <<sp_rate, sp_start, sp_end, sp_base0, sp_insert0>>
    /\ UNCHANGED <<st_vars, wf_vars, mw_vars, ext_vars>>

SpliceNext == SpliceCall

SpecSplice == SpliceInit /\ [][SpliceNext]_vars

SpliceReturned == sp_out # NoBuffer /\ sp_out # ValueError

\* the indices as the specification states them
SpecStartIdx == Clamp(PyRound(sp_start * sp_rate, 1000), 0, Len(sp_base0.data))
SpecEndIdx == Clamp(PyRound(sp_end * sp_rate, 1000), SpecStartIdx, Len(sp_base0.data))

\* what the specification states as the result of the call
SpecResult ==
    SubSeq(sp_base0.data, 1, SpecStartIdx) \o sp_insert0.data
        \o SubSeq(sp_base0.data, SpecEndIdx + 1, Len(sp_base0.data))

\* the statement of C1 as claimed: for every base buffer, rate, insert
\* buffer and pair of times the call is not rejected and returns
\* base[0:start_idx] ++ insert ++ base[end_idx:]
C1_AsClaimed ==
    sp_out # NoBuffer =>
        /\ sp_out # ValueError
        /\ sp_out.data = SpecResult

\* C1 (amended): for every base and insert buffer with the same number of
\* channels, every rate and every pair of times (negative, past the end,
\* end < start), splice returns base[0:start_idx] ++ insert ++ base[end_idx:]
\* with start_idx = clamp(round(start_sec*rate), 0, len(base)) and end_idx =
\* clamp(round(end_sec*rate), start_idx, len(base)), of start_idx +
\* len(insert) + (len(base) - end_idx) frames; when the numbers of channels
\* differ the call raises ValueError, whatever the times.
C1_SpliceResult ==
    sp_out # NoBuffer =>
        IF sp_base0.nch = sp_insert0.nch
        THEN /\ sp_out # ValueError
             /\ sp_out.nch = sp_base0.nch
             /\ sp_out.data = SpecResult
             /\ Len(sp_out.data) = SpecStartIdx + Len(sp_insert0.data)
                                     + (Len(sp_base0.data) - SpecEndIdx)
        ELSE sp_out = ValueError

\* a call with end before start, inside the buffer, has returned
C1_Witness ==
    /\ SpliceReturned
    /\ sp_end < sp_start
    /\ 0 < SpecStartIdx /\ SpecStartIdx < Len(sp_base0.data)
    /\ sp_insert0.data # <<>>

SegStartSecs == {0, 1000}
SegDurations == {0, 500}
SegCharStarts == 0..2
SegCharLengths == 0..2

WordSegments ==
    {WordSegment(t, d, c, l) :
        t \in SegStartSecs, d \in SegDurations, c \in SegCharStarts, l \in SegCharLengths}

\* what the recognizer delivers: segments in non-decreasing start_sec and
\* char_start order, inside the text
SegmentsInOrder(segments) ==
    \A i \in 1..Len(segments) - 1 :
        /\ segments[i].start_sec <= segments[i + 1].start_sec
        /\ segments[i].char_start <= segments[i + 1].char_start

SegmentLists ==
    {segments \in SeqsUpTo(WordSegments, MaxSegs) : SegmentsInOrder(segments)}

Transcriptions ==
    {TranscriptionResult(n, segments) :
        n \in 0..MaxText,
        segments \in {sl \in SegmentLists :
                        \A i \in 1..Len(sl) : seg_end_char(sl[i]) <= MaxText}}

TranscriptionInText(tr) ==
    \A i \in 1..Len(tr.segments) : seg_end_char(tr.segments[i]) <= tr.text_len

SelInit ==
    /\ apple = TRUE
    /\ ExtIdle
    /\ SpliceIdle
    /\ ViewIdle
    /\ ControllerIdle
    /\ st_transcription \in {tr \in Transcriptions : TranscriptionInText(tr)}
    /\ st_session \in {SessionAudio(Buffer(1, [k \in 1..n |-> 0]), 1, 1) : n \in {0, 2}}
    /\ st_selectionStart \in 0..st_transcription.text_len
    /\ st_selectionEnd \in 0..st_transcription.text_len
    /\ st_called = FALSE
    /\ st_out = NoRange

SelCall ==
    /\ ~st_called
    /\ st_called' = TRUE
    /\ st_out' = selection_to_time(st_transcription, st_session,
                                    st_selectionStart, st_selectionEnd)
    /\ UNCHANGED <<st_transcription, st_session, st_selectionStart, st_selectionEnd>>
    /\ UNCHANGED <<sp_vars, wf_vars, mw_vars, ext_vars>>

SelNext == SelCall

SpecSel == SelInit /\ [][SelNext]_vars

StSegments == st_transcription.segments
StFirst == StSegments[1]
StLast == StSegments[Len(StSegments)]
StSelStart == Min(st_selectionStart, st_selectionEnd)
StSelEnd == Max(st_selectionStart, st_selectionEnd)

SortedByCharStart(segments) ==
    \A i \in 1..Len(segments) - 1 : segments[i].char_start <= segments[i + 1].char_start

\* the whole text is selected, and there is a segment
WholeTextSelected ==
    /\ st_called
    /\ StSegments # <<>>
    /\ SortedByCharStart(StSegments)
    /\ StSelStart = 0
    /\ StSelEnd = st_transcription.text_len

\* every segment covers at least one character and the segments do not overlap
CharRangesDisjoint(segments) ==
    /\ \A i \in 1..Len(segments) : segments[i].char_length >= 1
    /\ \A i \in 1..Len(segments) - 1 :
           seg_end_char(segments[i]) <= segments[i + 1].char_start

\* the statement of C5 as claimed, on well-formed segments: [0, text_length]
\* maps to (first.start_sec, last.start_sec + last.duration_sec) for every
\* text, also one that extends past the last segment's characters
C5_AsClaimed ==
    (WholeTextSelected /\ CharRangesDisjoint(StSegments)) =>
        st_out = <<StFirst.start_sec, StLast.start_sec + StLast.duration_sec>>

\* C5 (amended): for a segment list sorted by char_start, of non-empty
\* character ranges that do not overlap, the selection [0, text_length] maps
\* to start_t = first.start_sec, and to end_t = last.start_sec +
\* last.duration_sec when the last segment ends at text_length; when the
\* text extends past the last segment, end_t is the buffer's total duration.
C5_WholeText ==
    (WholeTextSelected /\ CharRangesDisjoint(StSegments)) =>
        /\ st_out[1] = StFirst.start_sec
        /\ st_out[2] = IF seg_end_char(StLast) = st_transcription.text_len
                        THEN StLast.start_sec + StLast.duration_sec
                        ELSE session_duration(st_session)

\* two segments, the whole text selected, the text one character longer
\* than the last segment's range
C5_Witness ==
    /\ WholeTextSelected /\ CharRangesDisjoint(StSegments)
    /\ Len(StSegments) = 2
    /\ seg_end_char(StLast) < st_transcription.text_len
    /\ StLast.start_sec + StLast.duration_sec # session_duration(st_session)

\* the segments the specification's steps 1 and 2 name
FirstWith(P(_)) ==
    IF \E i \in 1..Len(StSegments) : P(StSegments[i])
    THEN CHOOSE i \in 1..Len(StSegments) :
            P(StSegments[i]) /\ \A j \in 1..i - 1 : ~P(StSegments[j])
    ELSE 0

C6_StartSeg == FirstWith(LAMBDA seg : seg.char_start + seg.char_length > StSelStart)
C6_EndSeg == FirstWith(LAMBDA seg : seg.char_start + seg.char_length >= StSelEnd)

\* C6: for a non-degenerate selection [start, end), start_t is the start_sec
\* of the first segment with char_start + char_length > start (0 if none)
\* and end_t is start_sec + duration_sec of the first segment with
\* char_start + char_length >= end (the buffer's duration if none).
C6_CharToTime ==
    (st_called /\ StSelStart # StSelEnd) =>
        /\ st_out[1] = IF C6_StartSeg = 0 THEN 0 ELSE StSegments[C6_StartSeg].start_sec
        /\ st_out[2] = IF C6_EndSeg = 0 THEN session_duration(st_session)
                        ELSE StSegments[C6_EndSeg].start_sec
                                + StSegments[C6_EndSeg].duration_sec

\* a selection that starts in the second segment and ends past the last one
C6_Witness ==
    /\ st_called /\ StSelStart # StSelEnd
    /\ C6_StartSeg = 2 /\ C6_EndSeg = 0
    /\ st_out = <<1000, 2000>>

\* ------------------------------------------------- SpecView: the viewport
\* total durations of 0, 0.05, 10 and 3600 seconds, as frames at 1000 Hz
ViewTotalFrames == {0, 50, 10000, 3600000}
PixelXs == {0, 1, WidgetWidth}
WheelDeltas == {0 - 120, 120}
PanPixels == {0 - 150, 0, 150}
PanAngles == {0 - 120, 120}
PinchScales == {0, 50, 200, 100000}

WfDuration == wf_duration_of(wf_frames, wf_sr)

ViewInit ==
    /\ apple = TRUE
    /\ ExtIdle
    /\ SpliceIdle
    /\ SelIdle
    /\ ControllerIdle
    /\ wf_frames \in ViewTotalFrames
    /\ wf_sr = 1000
    /\ wf_view_start = 0
    /\ wf_view_dur = NoTime
    /\ wf_last = NoGesture
    /\ wf_ops = 0

ViewStep(op, new) ==
    /\ wf_ops < MaxViewOps
    /\ wf_ops' = wf_ops + 1
    /\ wf_view_start' = new[1]
    /\ wf_view_dur' = new[2]
    /\ wf_last' = op
    /\ UNCHANGED <<wf_frames, wf_sr, sp_vars, st_vars, mw_vars, ext_vars>>

\* the view a zoom starts from, and the time under the pointer at pixel x
ViewBefore == view_initialized(WfDuration, wf_view_start, wf_view_dur)
CenterAt(x) == time_at_x(x, WidgetWidth, WfDuration, ViewBefore[1], ViewBefore[2])

WheelZoom ==
    \E x \in PixelXs, delta \in WheelDeltas :
        ViewStep([op |-> "wheel_zoom", zoomed |-> WfDuration > 0,
                  old_start |-> ViewBefore[1], old_dur |-> ViewBefore[2],
                  center |-> CenterAt(x),
                  num |-> IF delta > 0 THEN 95 ELSE 105, den |-> 100],
                 wheel_zoom(WfDuration, wf_view_start, wf_view_dur, x, WidgetWidth, delta))

WheelPan ==
    \E px \in PanPixels, ax \in PanAngles :
        ViewStep([op |-> "wheel_pan"],
                 wheel_pan(WfDuration, wf_view_start, wf_view_dur, px, ax))

PinchZoom ==
    \E x \in PixelXs, scale_pct \in PinchScales :
        ViewStep([op |-> "pinch_zoom", zoomed |-> WfDuration > 0,
                  old_start |-> ViewBefore[1], old_dur |-> ViewBefore[2],
                  center |-> CenterAt(x),
                  num |-> 100, den |-> IF scale_pct <= 0 THEN 100 ELSE scale_pct],
                 handle_gesture(WfDuration, wf_view_start, wf_view_dur, x, WidgetWidth, scale_pct))

\* mouseDoubleClickEvent
DoubleClick ==
    ViewStep([op |-> "double_click"], <<0, NoTime>>)

\* pixels left of the widget, inside it and right of it; widget widths
ProbeXs == (0 - 1)..(WidgetWidth + 1)
ProbeWidths == {1, WidgetWidth}
ProbeTimes == {0, 25, 1000}

\* _time_at_x(x) in a widget of the given width, as the mouse handlers call it
TimeAtX ==
    \E x \in ProbeXs, width \in ProbeWidths :
        ViewStep([op |-> "time_at_x", x |-> x, width |-> width,
                  t |-> time_at_x(x, width, WfDuration, wf_view_start, wf_view_dur)],
                 <<wf_view_start, wf_view_dur>>)

\* _x_at_time(t, w), as paintEvent calls it for the cursor, the selection
\* and the words
XAtTime ==
    \E t \in ProbeTimes, width \in ProbeWidths :
        ViewStep([op |-> "x_at_time", t |-> t, width |-> width,
                  x |-> x_at_time(t, width, WfDuration, wf_view_start, wf_view_dur)],
                 <<wf_view_start, wf_view_dur>>)

ViewNext == WheelZoom \/ WheelPan \/ PinchZoom \/ DoubleClick \/ TimeAtX \/ XAtTime

SpecView == ViewInit /\ [][ViewNext]_vars

\* view_duration read as the total when it is unset
ViewDurOrTotal == IF wf_view_dur = NoTime THEN WfDuration ELSE wf_view_dur

\* C9: after any sequence of wheel zooms, pinch zooms and wheel pans on a
\* buffer of 0, 0.05, 10 or 3600 seconds, 0 <= view_start and
\* view_start + view_duration <= total_duration.
C9_ViewportClamp ==
    /\ 0 <= wf_view_start
    /\ wf_view_start + ViewDurOrTotal <= WfDuration

\* a zoomed-in window that was panned away from 0, on the 3600 s buffer
C9_Witness ==
    /\ wf_frames = 3600000
    /\ wf_last.op = "wheel_pan"
    /\ wf_view_dur # NoTime /\ wf_view_dur < WfDuration
    /\ wf_view_start > 0
    /\ wf_view_start + wf_view_dur = WfDuration

\* the statement of C10: a wheel zoom on a buffer with audio stores
\* clamp(old_duration * factor, min(0.05 s, total), total) as the view
\* duration, factor 0.95 for a positive delta and 1.05 otherwise
C10_AsClaimed ==
    (wf_last.op = "wheel_zoom" /\ wf_last.zoomed) =>
        wf_view_dur = Clamp((wf_last.old_dur * wf_last.num) \div wf_last.den,
                            Min(50, WfDuration), WfDuration)

\* the statement of C11: after a zoom about center_time, with rel =
\* (center_time - old_start) / old_duration, view_start is center_time -
\* rel * new_duration clamped into [0, total - new_duration], new_duration
\* being the view duration the zoom stored
C11_AsClaimed ==
    (wf_last.op \in {"wheel_zoom", "pinch_zoom"} /\ wf_last.zoomed) =>
        wf_view_start =
            Clamp(wf_last.center
                    - MulDiv(wf_last.center - wf_last.old_start, wf_view_dur,
                             Max(1, wf_last.old_dur)),
                  0, WfDuration - wf_view_dur)

\* C14: for every pixel x and widget width >= 1, _time_at_x returns
\* view_start + clamp(x / width, 0, 1) * view_duration, a time inside the
\* visible range and inside [0, total duration].
C14_PixelToTime ==
    wf_last.op = "time_at_x" =>
        /\ wf_last.t = wf_view_start
                         + (Clamp(wf_last.x, 0, wf_last.width) * ViewDurOrTotal)
                             \div wf_last.width
        /\ wf_view_start <= wf_last.t /\ wf_last.t <= wf_view_start + ViewDurOrTotal
        /\ 0 <= wf_last.t /\ wf_last.t <= WfDuration

\* a pixel right of the widget, in a view zoomed in and away from 0
C14_Witness ==
    /\ wf_last.op = "time_at_x"
    /\ wf_last.x > wf_last.width
    /\ wf_view_dur # NoTime /\ wf_view_dur < WfDuration
    /\ wf_view_start > 0
    /\ wf_last.t = wf_view_start + wf_view_dur

\* the statement of C15: with nothing visible (an empty buffer) both
\* mappings return 0, for every pixel and for every time
C15_AsClaimed ==
    WfDuration <= 0 =>
        /\ wf_last.op = "time_at_x" => wf_last.t = 0
        /\ wf_last.op = "x_at_time" => wf_last.x = 0

\* ------------------------------------------------- Spec: the controller
\* AudioRecorder(sample_rate=44100, channels=1), in frames per second of
\* the model
RecorderRate == 1

\* where the mouse goes down and up: the left edge, the middle, the right edge
ClickXs == {0, WidgetWidth \div 2, WidgetWidth}

\* what the microphone delivers between start() and stop(): n frames, each
\* of the value n, so that frames of different takes differ
ClipLengths == {0, 1, 2}

Clips == {Buffer(1, [k \in 1..n |-> n]) : n \in ClipLengths}

\* the inputs a command reads: one value stands for all when it reads none
ClipsIf(read) == IF read THEN Clips ELSE {Buffer(1, <<>>)}
HearingsIf(read) == IF read /\ apple THEN Hearings ELSE {"none"}
ClickXsIf(read) == IF read THEN ClickXs ELSE {0}
StartsIf(read) == IF read THEN BOOLEAN ELSE {TRUE}

State ==
    [session |-> session, transcription |-> transcription,
     selection_time |-> selection_time,
     rerecord_active |-> rerecord_active, rerecord_range |-> rerecord_range,
     text_len |-> text_len, text_sel |-> text_sel,
     recording |-> recording, pending |-> pending,
     cursor_time |-> cursor_time, wf_sel |-> wf_sel, dragging |-> dragging,
     word_items |-> word_items,
     wf_frames |-> wf_frames, wf_sr |-> wf_sr,
     view_start |-> wf_view_start, view_dur |-> wf_view_dur]

SessionFrames(s) == IF s.session = NoSession THEN 0 ELSE Len(s.session.audio.data)

\* the state after a command, and the command
CommitState(new, command) ==
    /\ steps < MaxSteps
    /\ steps' = steps + 1
    /\ SessionFrames(new) <= MaxFrames
    /\ new.pending <= MaxPending
    /\ session' = new.session
    /\ transcription' = new.transcription
    /\ selection_time' = new.selection_time
    /\ rerecord_active' = new.rerecord_active
    /\ rerecord_range' = new.rerecord_range
    /\ text_len' = new.text_len
    /\ text_sel' = new.text_sel
    /\ recording' = new.recording
    /\ pending' = new.pending
    /\ cursor_time' = new.cursor_time
    /\ wf_sel' = new.wf_sel
    /\ dragging' = new.dragging
    /\ word_items' = new.word_items
    /\ wf_frames' = new.wf_frames
    /\ wf_sr' = new.wf_sr
    /\ wf_view_start' = new.view_start
    /\ wf_view_dur' = new.view_dur
    /\ last' = command
    /\ UNCHANGED <<apple, wf_last, wf_ops, sp_vars, st_vars, rc_vars, pcm_vars>>

\* a command that leaves the playback attributes alone, or finds nothing
\* playing
Commit(new, command) == CommitState(new, command) /\ UNCHANGED <<pb_vars, fl_vars>>

TextRange == selection_to_time(transcription, session, text_sel[1], text_sel[2])

\* "self.apple = AppleSpeechRecognizer(...)", or None when that raises
Init ==
    /\ ExtIdle
    /\ SpliceIdle
    /\ SelIdle
    /\ ViewIdle
    /\ ControllerIdle
    /\ apple \in BOOLEAN

\* on_stop calls on_transcribe itself: after a re-record splice or an append
StopTranscribes ==
    /\ recording
    /\ session # NoSession
    /\ rerecord_active \/ (Len(session.audio.data) > 0 /\ cursor_at_end(State))

Record ==
    \E start_ok \in StartsIf(~recording), clip \in ClipsIf(recording),
       heard \in HearingsIf(StopTranscribes) :
        Commit(on_record(State, apple, start_ok, clip, RecorderRate, heard),
               [cmd |-> "record", was_recording |-> recording])

Stop ==
    \E clip \in ClipsIf(recording), heard \in HearingsIf(StopTranscribes) :
        Commit(on_stop(State, apple, clip, RecorderRate, heard),
               [cmd |-> "stop", was_recording |-> recording])

\* the single-shot timer of on_stop fires
TimerFires ==
    /\ pending > 0
    /\ \E heard \in HearingsIf(SessionFrames(State) > 0) :
          Commit(final_transcribe_if_ready([State EXCEPT !.pending = @ - 1], apple, heard),
                 [cmd |-> "timer"])

\* the user selects [a, b) in the transcript, or puts the cursor at a = b
SelectText ==
    \E a \in 0..text_len, b \in 0..text_len :
        /\ a <= b
        /\ Commit(on_selection_changed([State EXCEPT !.text_sel = <<a, b>>]),
                  [cmd |-> "select_text"])

MousePress ==
    \E x \in ClickXsIf(wf_duration(State) > 0) :
        Commit(mousePressEvent(State, x, WidgetWidth), [cmd |-> "press"])

MouseMove ==
    \E x \in ClickXsIf(dragging /\ wf_duration(State) > 0) :
        Commit(mouseMoveEvent(State, x, WidgetWidth), [cmd |-> "move"])

MouseRelease ==
    Commit(mouseReleaseEvent(State), [cmd |-> "release"])

SkipEnd ==
    Commit(on_skip_end(State), [cmd |-> "skip_end"])

\* the range _delete_selection resolves; NoRange without a session
DeleteRange == IF session = NoSession THEN NoRange ELSE delete_range(State)

Delete ==
    \E heard \in HearingsIf(DeleteRange # NoRange) :
        Commit(delete_selection(State, apple, heard),
               [cmd |-> "delete", range |-> DeleteRange,
                before |-> IF DeleteRange # NoRange /\ DeleteRange[2] <= DeleteRange[1]
                           THEN State ELSE NoCommand])

Next ==
    \/ Record
    \/ Stop
    \/ TimerFires
    \/ SelectText
    \/ MousePress
    \/ MouseMove
    \/ MouseRelease
    \/ SkipEnd
    \/ Delete

Spec == Init /\ [][Next]_vars

\* ------------------------------------------- SpecEdit: import, clear, zoom
\* The controller with its file, clear and zoom commands as well, over
\* shorter runs.

\* the files the user may pick or drop: one that wave.open rejects, a mono
\* and a stereo file of two frames at one frame per second
WavFiles ==
    {Unreadable, WavFile(Buffer(1, <<1, 1>>), 1), WavFile(Buffer(2, <<1, 1>>), 1)}

\* the scale factors of a pinch, in percent
EditScales == {50, 400}

Zoomed == wf_view_dur # NoTime

HasContent == (session # NoSession /\ Len(session.audio.data) > 0) \/ text_len > 0

\* on_import_audio with a file chosen, or dropEvent with a .wav file
Import ==
    \E file \in WavFiles : \E heard \in HearingsIf(file # Unreadable) :
        Commit(load_audio_file(State, file, apple, heard),
               [cmd |-> "import", loaded |-> file # Unreadable, zoomed |-> Zoomed])

Clear ==
    \E confirmed \in (IF HasContent THEN BOOLEAN ELSE {FALSE}) :
        Commit(on_clear(State, confirmed),
               [cmd |-> "clear", cleared |-> confirmed, zoomed |-> Zoomed])

\* a pinch gesture over the waveform
Pinch ==
    \E x \in ClickXsIf(wf_duration(State) > 0), scale \in EditScales :
        Commit(pinch(State, x, WidgetWidth, scale), [cmd |-> "pinch"])

DoubleClickWaveform ==
    Commit(mouseDoubleClickEvent(State), [cmd |-> "double_click"])

\* no command once MaxEditSteps have been taken
EditOpen == steps < MaxEditSteps

NextEdit ==
    \/ EditOpen /\ Record
    \/ EditOpen /\ Stop
    \/ EditOpen /\ TimerFires
    \/ EditOpen /\ SelectText
    \/ EditOpen /\ MousePress
    \/ EditOpen /\ MouseMove
    \/ EditOpen /\ MouseRelease
    \/ EditOpen /\ SkipEnd
    \/ EditOpen /\ Delete
    \/ EditOpen /\ Import
    \/ EditOpen /\ Clear
    \/ EditOpen /\ Pinch
    \/ EditOpen /\ DoubleClickWaveform

SpecEdit == Init /\ [][NextEdit]_vars

\* what a command that does nothing leaves alone: everything but the
\* record of the command itself
ControllerUnchanged ==
    UNCHANGED <<session, transcription, selection_time, rerecord_active, rerecord_range,
                text_len, text_sel, recording, pending, cursor_time, wf_sel, dragging,
                word_items, wf_frames, wf_sr, wf_view_start, wf_view_dur>>

\* Delete resolved a range whose end is not after its start; the state it
\* found is then last.before
DeletedEmptyRange(command) ==
    /\ command.cmd = "delete"
    /\ command.range # NoRange
    /\ command.range[2] <= command.range[1]

\* C4: deleting a zero-length range is a no-op: whenever Delete was pressed,
\* splice with an empty insert and start == end, at any time, returns the
\* frames of the buffer then held, and a Delete that resolved a range whose
\* end is not after its start left buffer, transcript, cursor, selection and
\* viewport as they were.
C4_EmptyDeleteNoOp ==
    /\ (last.cmd = "delete" /\ session # NoSession) =>
          \A t \in SpliceTimes :
              splice_audio(session.audio, session.sample_rate, t, t,
                           Buffer(session.audio.nch, <<>>)) = session.audio
    /\ DeletedEmptyRange(last) => State = last.before

\* Delete was pressed on a range whose end is before its start
C4_Witness ==
    /\ DeletedEmptyRange(last)
    /\ last.range[2] < last.range[1]
    /\ session # NoSession

TextDegenerate == text_sel[1] = text_sel[2]

C7_Step ==
    \* a transcript selection with start == end yields None
    /\ (last'.cmd = "select_text" /\ text_sel'[1] = text_sel'[2]) =>
          (selection_time' = NoRange /\ TextRange' = NoRange)
    \* a click, and a drag that ends where it began, yield None
    /\ (last'.cmd = "press" /\ WfDuration > 0) => selection_time' = NoRange
    /\ (/\ last'.cmd = "move" /\ dragging /\ WfDuration > 0
        /\ wf_sel' # NoRange /\ wf_sel'[1] = wf_sel'[2]) => selection_time' = NoRange
    \* with no other selection, Record does not arm and Delete does nothing
    /\ (last'.cmd = "record" /\ ~recording /\ TextDegenerate) =>
          (rerecord_active' = rerecord_active /\ rerecord_range' = rerecord_range)
    /\ (last'.cmd = "delete" /\ selection_time = NoRange /\ TextDegenerate) =>
          ControllerUnchanged

\* C7: a degenerate selection never becomes an editable range: a transcript
\* selection with start == end, a waveform click and a drag whose two ends
\* are the same time yield no time range, and then Record does not arm
\* re-record and Delete changes nothing.
C7_DegenerateSelection == [][C7_Step]_vars

\* after a click on the waveform of a transcribed buffer, with only a cursor
\* in the transcript, Delete was pressed
C7_Witness ==
    /\ last.cmd = "delete" /\ last.range = NoRange
    /\ session # NoSession /\ Len(session.audio.data) > 0
    /\ transcription # NoTranscription
    /\ wf_sel # NoRange /\ wf_sel[1] = wf_sel[2]
    /\ TextDegenerate

TimeRangeOk(range) ==
    range # NoRange => (range[1] # NoTime /\ range[2] # NoTime /\ range[2] >= range[1])

\* C8: every time range the controller holds, the selection and the armed
\* re-record range, has both ends defined and end_sec >= start_sec, also
\* when it was resolved from a transcript of an earlier, longer buffer.
C8_AsClaimed == TimeRangeOk(selection_time) /\ TimeRangeOk(rerecord_range)

ViewReset == wf_view_start = 0 /\ wf_view_dur = NoTime

\* Stop, or Record as Stop, finds a capture active
StopsCapture(command) == command.cmd \in {"stop", "record"} /\ recording

\* the clip of an un-armed Stop becomes the buffer: there is none yet, or it
\* is empty, or the cursor is not at its end
ClipReplaces ==
    /\ ~rerecord_active
    /\ \/ session = NoSession
       \/ Len(session.audio.data) = 0
       \/ ~cursor_at_end(State)

C12_Step ==
    /\ (last'.cmd = "import" /\ last'.loaded) => ViewReset'
    /\ (last'.cmd = "clear" /\ last'.cleared) => ViewReset'
    /\ (StopsCapture(last') /\ ClipReplaces) => ViewReset'

\* C12: replacing the buffer wholesale resets the viewport: after an import
\* that loaded a file, a confirmed clear, and a Stop whose clip becomes the
\* whole buffer (first recording or fresh take), view_start is 0 and
\* view_duration is unset, whatever the zoom was before.
C12_ReplaceResetsView == [][C12_Step]_vars

\* a file was imported over a zoomed-in view
C12_Witness ==
    /\ last.cmd = "import" /\ last.loaded /\ last.zoomed
    /\ ViewReset
    /\ session # NoSession /\ Len(session.audio.data) > 0

\* the clip of a Stop is spliced into the armed range or appended
ClipEdits ==
    /\ session # NoSession
    /\ \/ rerecord_active /\ rerecord_range # NoRange
       \/ ~rerecord_active /\ Len(session.audio.data) > 0 /\ cursor_at_end(State)

\* the user has zoomed in, and the window still lies inside the buffer the
\* edit leaves, narrower than it
ViewStillFits ==
    /\ Zoomed
    /\ wf_view_start + wf_view_dur <= WfDuration'
    /\ wf_view_dur < WfDuration'

C13_Step ==
    /\ (StopsCapture(last') /\ ClipEdits /\ ViewStillFits) =>
          UNCHANGED <<wf_view_start, wf_view_dur>>
    /\ (/\ last'.cmd = "delete" /\ last'.range # NoRange /\ last'.range[2] > last'.range[1]
        /\ ViewStillFits) =>
          UNCHANGED <<wf_view_start, wf_view_dur>>

\* C13: an in-place edit leaves the viewport alone: a Stop that splices the
\* clip into the armed range, a Stop that appends the clip, and a Delete of
\* a non-empty range leave view_start and view_duration as they were.  Stated
\* for a zoomed-in view that still lies inside the edited buffer.
C13_AsClaimed == [][C13_Step]_vars

C16_Step ==
    (last'.cmd = "record" /\ recording) =>
        /\ \E clip \in Clips, heard \in Hearings :
              State' = on_stop(State, apple, clip, RecorderRate, heard)
        /\ ~recording'
        /\ rerecord_active' => (rerecord_active /\ rerecord_range' = rerecord_range)

\* C16: Record toggles: pressed while a capture is active it leaves the
\* state Stop would leave for the same clip and recognizer answer, the
\* capture is over and none is started, and re-record is not armed by it.
C16_RecordToggles == [][C16_Step]_vars

\* Record ended a capture while the transcript held a selection that
\* resolves to a range, and did not arm
C16_Witness ==
    /\ last.cmd = "record" /\ last.was_recording
    /\ ~recording
    /\ TextRange # NoRange
    /\ ~rerecord_active

\* Record pressed on an idle recorder
IdleRecord == last.cmd = "record" /\ ~last.was_recording

\* the selection the controller holds: the waveform drag, or else the
\* transcript selection resolved to time
HeldSelection == IF selection_time # NoRange THEN selection_time ELSE TextRange

\* C17: Record pressed with no capture active arms re-record with the range
\* of the selection, made on the transcript or on the waveform, when that
\* range is non-degenerate, and the capture starts.  (on_record changes neither selection_time nor
\* the text selection, so both are read after the step.)
C17_AsClaimed ==
    (/\ IdleRecord /\ recording
     /\ HeldSelection # NoRange /\ HeldSelection[2] > HeldSelection[1]) =>
        (rerecord_active /\ rerecord_range = HeldSelection)

\* Stop finds a capture active, re-record armed with a range, and a buffer
ArmedStop(command) ==
    /\ StopsCapture(command)
    /\ rerecord_active /\ rerecord_range # NoRange
    /\ session # NoSession

\* the clip with the channel shape of the buffer it goes into
Adapted(clip, buffer) == Buffer(buffer.nch, clip.data)

\* the transcripts on_transcribe can leave for a buffer of the given duration
TranscriptsOf(dur) ==
    {Placeholder} \cup
    {transcribe_file(dur, heard).res : heard \in Hearings \ {"raise"}}

C18_Step ==
    ArmedStop(last') =>
        /\ session' # NoSession
        /\ \E clip \in Clips :
              session'.audio =
                  splice_audio(session.audio, session.sample_rate,
                               rerecord_range[1], rerecord_range[2],
                               Adapted(clip, session.audio))
        /\ cursor_time' = rerecord_range[1]
        /\ apple => transcription' \in TranscriptsOf(session_duration(session'))

\* C18: a Stop processed while re-record is armed and a capture is active
\* on an existing buffer leaves the buffer splice(old buffer, rate,
\* armed.start, armed.end, captured clip), the cursor at armed.start, and,
\* with a recognizer, the transcript of the whole new buffer.
C18_AsClaimed == [][C18_Step]_vars

\* C19: the arm redirects only the next Stop: after a Stop pressed while
\* re-record was armed, whatever it did, the arm flag is false and the armed
\* range is empty.
C19_AsClaimed ==
    [][(last'.cmd = "stop" /\ rerecord_active) =>
          (~rerecord_active' /\ rerecord_range' = NoRange)]_vars

\* Stop finds a capture active and re-record not armed
PrimaryStop(command) == StopsCapture(command) /\ ~rerecord_active

NoBufferYet == session = NoSession \/ Len(session.audio.data) = 0

\* the cursor is within 50 ms of the buffer's end
CursorNearEnd ==
    /\ cursor_time >= session_duration(session) - 50
    /\ cursor_time <= session_duration(session) + 50

\* the three outcomes of a Stop that finalizes a clip
ClipBecomesBuffer(clip) == session'.audio = clip
ClipAppended(clip) ==
    session'.audio = Buffer(session.audio.nch, session.audio.data \o clip.data)

\* the step is what on_stop does with this clip
StopTook(clip) ==
    \E heard \in Hearings : State' = on_stop(State, apple, clip, RecorderRate, heard)

C20_Step ==
    PrimaryStop(last') =>
        \A clip \in Clips :
            StopTook(clip) =>
                /\ session' # NoSession
                /\ IF NoBufferYet THEN ClipBecomesBuffer(clip)
                   ELSE IF CursorNearEnd THEN ClipAppended(clip)
                   ELSE ClipBecomesBuffer(clip)

\* C20: a Stop that finalizes a clip while not armed makes the clip the
\* buffer when there is no non-empty buffer, else appends it (old ++ clip)
\* when the cursor is within 50 ms of the buffer's end, else replaces the
\* whole buffer with it; one of the three happens in every state.
C20_AsClaimed == [][C20_Step]_vars

\* the step replaces or edits the buffer
BufferMutated == session' # session

\* C21: every buffer mutation (re-record splice, append, fresh-take replace,
\* delete, import, clear) clears the selection: right after it the
\* controller holds no selected time range and the waveform shows none.
C21_AsClaimed ==
    [][BufferMutated => (selection_time' = NoRange /\ wf_sel' = NoRange)]_vars

\* nothing of the program is left to run: no capture and no timer pending
Quiescent == ~recording /\ pending = 0

\* C22: every buffer mutation invalidates the transcript and triggers a
\* re-transcription, so that eventually the transcript is a result computed
\* from the current buffer or the zero-segment sentinel.  Once nothing is
\* left to run, "eventually" is now: with a recognizer, a buffer and a
\* transcript, the transcript is one the current buffer can give.
C22_AsClaimed ==
    (Quiescent /\ apple /\ session # NoSession /\ transcription # NoTranscription) =>
        transcription \in TranscriptsOf(session_duration(session))

\* Delete resolved a range whose end is after its start
DeletedRange(command) ==
    /\ command.cmd = "delete"
    /\ command.range # NoRange
    /\ command.range[2] > command.range[1]

C23_Step ==
    /\ (DeletedRange(last') /\ session # NoSession) =>
          /\ session'.audio =
                 splice_audio(session.audio, session.sample_rate,
                              last'.range[1], last'.range[2],
                              Buffer(session.audio.nch, <<>>))
          /\ cursor_time' = last'.range[1]
    /\ (last'.cmd = "delete" /\ (session = NoSession \/ last'.range = NoRange)) =>
          ControllerUnchanged

\* C23: Delete replaces the buffer by splice(buffer, rate, range.start,
\* range.end, empty) for the range it resolved and puts the cursor at
\* range.start; without a session or a resolvable range it changes nothing.
C23_AsClaimed == [][C23_Step]_vars

\* the step is the single-shot timer running on_transcribe with this answer
\* of the recognizer
TimerHeard(heard) ==
    /\ last'.cmd = "timer"
    /\ apple /\ SessionFrames(State) > 0
    /\ State' = on_transcribe([State EXCEPT !.pending = @ - 1], apple, heard)

\* the step is an import running on_transcribe with this answer
ImportHeard(heard) ==
    /\ last'.cmd = "import" /\ last'.loaded
    /\ apple
    /\ \E file \in WavFiles \ {Unreadable} :
          State' = load_audio_file(State, file, apple, heard)

\* the step is a Delete running on_transcribe with this answer
DeleteHeard(heard) ==
    /\ DeletedRange(last') /\ BufferMutated
    /\ apple
    /\ State' = delete_selection(State, apple, heard)

Sentinel ==
    /\ transcription = Placeholder
    /\ transcription.segments = <<>>
    /\ text_len = Placeholder.text_len

C24_Step ==
    \A heard \in {"raise", "none"} :
        (TimerHeard(heard) \/ ImportHeard(heard) \/ DeleteHeard(heard)) => Sentinel'

\* C24: a re-transcription that fails (the adapter raises) or returns empty
\* text leaves the sentinel transcript with zero segments, shown as the
\* text, and the controller goes on taking commands.
C24_FailureGivesSentinel == [][C24_Step]_vars

\* after a transcription that failed or heard nothing, a later Delete cut
\* frames out of the buffer
C24_Witness ==
    /\ transcription = Placeholder
    /\ last.cmd = "delete" /\ last.range # NoRange /\ last.range[2] > last.range[1]
    /\ session # NoSession /\ Len(session.audio.data) = 1

\* C28: when the authorization wait or the recognition wait times out (the
\* adapter raises TimeoutError), the attempt is abandoned with the buffer,
\* the transcript and its text, the selection and the cursor as they were.
C28_AsClaimed ==
    [][TimerHeard("raise") =>
          UNCHANGED <<session, transcription, text_len, text_sel, selection_time,
                      wf_sel, cursor_time>>]_vars

\* Record was pressed on an idle recorder and the device did not open:
\* recorder.start() raised and the recorder is not recording
StartFailed == last'.cmd = "record" /\ ~recording /\ ~recording'

\* C27: if starting the capture device fails when Record is pressed, no
\* partial state is committed: with the recorder left not recording, the
\* arm flag and the armed range are what they were before Record was
\* pressed.
C27_AsClaimed ==
    [][StartFailed =>
          /\ rerecord_active' = rerecord_active
          /\ rerecord_range' = rerecord_range]_vars

\* -------------------------------------------------- SpecRec: AudioRecorder
\* The recorder alone: the thread that calls start() and stop(), the input
\* stream's callback and the collector threads, one step per statement that
\* another thread can observe.  A chunk is one frame whose sample is the
\* chunk's number, so the returned array names the chunks it holds.

IsPrefix(a, b) == Len(a) <= Len(b) /\ SubSeq(b, 1, Len(a)) = a

\* AudioRecorder._append_to_buffer
append_to_buffer(buffer, frames_list) ==
    IF buffer = NoBuffer THEN Buffer(1, frames_list)
    ELSE Buffer(1, buffer.data \o frames_list)

\* AudioRecorder.start
RecStart ==
    /\ rc_main = "idle"
    /\ IF rc_stream # "none"
       THEN /\ rc_last' = [cmd |-> "start", began |-> FALSE]
            /\ UNCHANGED <<rc_stream, rc_buffer, rc_stop_event, rc_pc, rc_frames,
                           rc_caps, rc_sent, rc_late>>
       ELSE /\ rc_caps < MaxCaptures
            /\ rc_buffer' = NoBuffer
            /\ rc_stop_event' = FALSE
            /\ rc_stream' = "active"
            /\ rc_caps' = rc_caps + 1
            /\ rc_pc' = [rc_pc EXCEPT ![rc_caps + 1] = "test"]
            /\ rc_frames' = [rc_frames EXCEPT ![rc_caps + 1] = <<>>]
            /\ rc_sent' = <<>>
            /\ rc_late' = <<>>
            /\ rc_last' = [cmd |-> "start", began |-> TRUE]
    /\ UNCHANGED <<rc_q, rc_main, rc_chunks, rc_out>>

\* AudioRecorder._callback, on the stream's own thread while the stream runs
Callback ==
    /\ rc_stream = "active"
    /\ rc_chunks < MaxChunks
    /\ rc_chunks' = rc_chunks + 1
    /\ rc_q' = Append(rc_q, rc_chunks + 1)
    /\ IF rc_main = "idle"
       THEN rc_sent' = Append(rc_sent, rc_chunks + 1) /\ UNCHANGED rc_late
       ELSE rc_late' = Append(rc_late, rc_chunks + 1) /\ UNCHANGED rc_sent
    /\ UNCHANGED <<rc_stream, rc_buffer, rc_stop_event, rc_pc, rc_frames, rc_main,
                   rc_caps, rc_out, rc_last>>

\* AudioRecorder.stop, up to "self._stop_event.set()"
StopBegin ==
    /\ rc_main = "idle"
    /\ IF rc_stream = "none"
       THEN /\ rc_last' = [cmd |-> "stop", raised |-> TRUE, joined |-> FALSE]
            /\ UNCHANGED <<rc_stop_event, rc_main>>
       ELSE /\ rc_stop_event' = TRUE
            /\ rc_main' = "closing"
            /\ UNCHANGED rc_last
    /\ UNCHANGED <<rc_stream, rc_q, rc_buffer, rc_pc, rc_frames, rc_caps, rc_chunks,
                   rc_sent, rc_late, rc_out>>

\* "self._stream.stop()" to "self._stream = None"
StopClose ==
    /\ rc_main = "closing"
    /\ rc_stream' = "none"
    /\ rc_main' = "joining"
    /\ UNCHANGED <<rc_q, rc_buffer, rc_stop_event, rc_pc, rc_frames, rc_caps, rc_chunks,
                   rc_sent, rc_late, rc_out, rc_last>>

\* a join that reports the thread ended whether or not it has
StopJoinNoWait ==
    /\ rc_main = "joining"
    /\ rc_last' = [cmd |-> "stop", raised |-> FALSE, joined |-> TRUE]
    /\ rc_out' = IF rc_buffer = NoBuffer THEN Buffer(1, <<>>) ELSE rc_buffer
    /\ rc_main' = "idle"
    /\ UNCHANGED <<rc_stream, rc_q, rc_buffer, rc_stop_event, rc_pc, rc_frames, rc_caps,
                   rc_chunks, rc_sent, rc_late>>

\* "self._collect_thread.join(timeout=2.0)" returns, because the thread has
\* ended or because the two seconds are over, and stop() reads the buffer
StopJoin ==
    /\ rc_main = "joining"
    /\ \E joined \in {rc_pc[rc_caps] = "done", FALSE} :
          rc_last' = [cmd |-> "stop", raised |-> FALSE, joined |-> joined]
    /\ rc_out' = IF rc_buffer = NoBuffer THEN Buffer(1, <<>>) ELSE rc_buffer
    /\ rc_main' = "idle"
    /\ UNCHANGED <<rc_stream, rc_q, rc_buffer, rc_stop_event, rc_pc, rc_frames, rc_caps,
                   rc_chunks, rc_sent, rc_late>>

\* _collector_loop: "while not self._stop_event.is_set()"
CollectorTest(t) ==
    /\ rc_pc[t] = "test"
    /\ rc_pc' = [rc_pc EXCEPT ![t] = IF rc_stop_event THEN "final" ELSE "get"]
    /\ UNCHANGED <<rc_stream, rc_q, rc_buffer, rc_stop_event, rc_frames, rc_main, rc_caps,
                   rc_chunks, rc_sent, rc_late, rc_out, rc_last>>

\* "chunk = self._frames_q.get(timeout=0.1)", or queue.Empty
CollectorGet(t) ==
    /\ rc_pc[t] = "get"
    /\ IF rc_q # <<>>
       THEN /\ rc_frames' = [rc_frames EXCEPT ![t] = Append(@, Head(rc_q))]
            /\ rc_q' = Tail(rc_q)
       ELSE UNCHANGED <<rc_frames, rc_q>>
    /\ rc_pc' = [rc_pc EXCEPT ![t] = "flush"]
    /\ UNCHANGED <<rc_stream, rc_buffer, rc_stop_event, rc_main, rc_caps, rc_chunks,
                   rc_sent, rc_late, rc_out, rc_last>>

\* the periodic flush: "if (time.time() - last_flush) > 1.0 and frames"
CollectorFlush(t) ==
    /\ rc_pc[t] = "flush"
    /\ \E due \in (IF rc_frames[t] # <<>> THEN BOOLEAN ELSE {FALSE}) :
          IF due
          THEN /\ rc_buffer' = append_to_buffer(rc_buffer, rc_frames[t])
               /\ rc_frames' = [rc_frames EXCEPT ![t] = <<>>]
          ELSE UNCHANGED <<rc_buffer, rc_frames>>
    /\ rc_pc' = [rc_pc EXCEPT ![t] = "test"]
    /\ UNCHANGED <<rc_stream, rc_q, rc_stop_event, rc_main, rc_caps, rc_chunks,
                   rc_sent, rc_late, rc_out, rc_last>>

\* the final flush, and the thread ends
CollectorFinal(t) ==
    /\ rc_pc[t] = "final"
    /\ rc_buffer' = IF rc_frames[t] # <<>> THEN append_to_buffer(rc_buffer, rc_frames[t])
                    ELSE rc_buffer
    /\ rc_pc' = [rc_pc EXCEPT ![t] = "done"]
    /\ UNCHANGED <<rc_stream, rc_q, rc_stop_event, rc_frames, rc_main, rc_caps, rc_chunks,
                   rc_sent, rc_late, rc_out, rc_last>>

\* the recorder's steps leave the rest alone
RecorderOnly == UNCHANGED <<sp_vars, st_vars, wf_vars, mw_vars, pb_vars, fl_vars, pcm_vars>>

RecNext ==
    \/ RecStart /\ RecorderOnly
    \/ Callback /\ RecorderOnly
    \/ StopBegin /\ RecorderOnly
    \/ StopClose /\ RecorderOnly
    \/ StopJoin /\ RecorderOnly
    \/ \E t \in Collectors : CollectorTest(t) /\ RecorderOnly
    \/ \E t \in Collectors : CollectorGet(t) /\ RecorderOnly
    \/ \E t \in Collectors : CollectorFlush(t) /\ RecorderOnly
    \/ \E t \in Collectors : CollectorFinal(t) /\ RecorderOnly

RecInit ==
    /\ apple = TRUE
    /\ ExtIdle
    /\ SpliceIdle
    /\ SelIdle
    /\ ViewIdle
    /\ ControllerIdle

SpecRec == RecInit /\ [][RecNext]_vars

\* stop() has returned an array and nothing was called since
StopReturned == rc_main = "idle" /\ rc_last.cmd = "stop" /\ ~rc_last.raised

\* C26: the audio stop() returns is the concatenation, in delivery order,
\* of every chunk the callback put in the queue between start() and stop(),
\* the chunks still in the queue when stop() is called included (chunks put
\* while stop() is running may or may not be part of it).  Stated for the
\* stops whose join found the collector thread ended.
C26_AsClaimed ==
    (StopReturned /\ rc_last.joined) =>
        /\ IsPrefix(rc_sent, rc_out.data)
        /\ IsPrefix(rc_out.data, rc_sent \o rc_late)

\* stop() returns: the join is over and the buffer is read
StopReturns == rc_main = "joining" /\ rc_main' = "idle"

\* C30: when stop() returns, the collector thread of the capture has ended,
\* its final flush done before the buffer was read, and the recorder is
\* inactive; a stop() that follows raises and a start() that follows begins
\* a new capture.
C30_Step ==
    /\ StopReturns => (rc_pc'[rc_caps] = "done" /\ rc_stream' = "none")
    /\ (StopReturned /\ StopBegin) => rc_last'.raised
    /\ (StopReturned /\ RecStart) =>
          /\ rc_last'.began /\ rc_stream' = "active"
          /\ rc_buffer' = NoBuffer /\ rc_sent' = <<>>

C30_BoundedStep ==
    /\ \A t \in Collectors :
          /\ (rc_pc[t] = "test" /\ rc_stop_event /\ rc_pc'[t] # "test") =>
                rc_pc'[t] = "final"
          /\ (rc_pc[t] = "final" /\ rc_pc'[t] # "final") =>
                /\ rc_pc'[t] = "done"
                /\ rc_frames[t] # <<>> =>
                      rc_buffer' = append_to_buffer(rc_buffer, rc_frames[t])
    /\ StopReturns =>
          /\ rc_stream' = "none"
          /\ rc_last'.joined => rc_pc'[rc_caps] = "done"
          /\ rc_out' = (IF rc_buffer = NoBuffer THEN Buffer(1, <<>>) ELSE rc_buffer)
    /\ (StopReturned /\ StopBegin) => rc_last'.raised
    /\ (StopReturned /\ RecStart) =>
          /\ rc_last'.began /\ rc_stream' = "active"
          /\ rc_buffer' = NoBuffer /\ rc_sent' = <<>>

Devices == {"ok", "open_fails", "start_fails"}

Player ==
    [stream |-> play_stream, timer |-> play_timer, audio |-> play_audio,
     sr |-> play_sr, frame |-> play_frame]

\* MainWindow._stop_playback: the stream is None afterwards, also when
\* stopping it raises
stop_playback(p) == [p EXCEPT !.timer = FALSE, !.stream = "none"]

\* MainWindow._start_playback: the controller, the player, and whether
\* sd.OutputStream(...) or its start() raised
start_playback(s, p, start_sec, device) ==
    IF s.session = NoSession THEN [s |-> s, p |-> p, raised |-> FALSE]
    ELSE LET p1 == [stop_playback(p) EXCEPT
                       !.audio = mono(s.session.audio),
                       !.sr = s.session.sample_rate,
                       !.frame = Max(0, (start_sec * s.session.sample_rate) \div 1000)]
             s1 == set_cursor_time(s, start_sec)
         IN  IF device = "open_fails" THEN [s |-> s1, p |-> p1, raised |-> TRUE]
             ELSE IF device = "start_fails"
             THEN [s |-> s1, p |-> [p1 EXCEPT !.stream = "opened"], raised |-> TRUE]
             ELSE [s |-> s1, p |-> [p1 EXCEPT !.stream = "started", !.timer = TRUE],
                   raised |-> FALSE]

\* MainWindow.on_play
on_play(s, p, device) ==
    IF s.session = NoSession THEN [s |-> s, p |-> p, raised |-> FALSE]
    ELSE LET dur == session_duration(s.session)
             start_sec == IF dur > 0 /\ s.cursor_time >= dur - 10 THEN 0 ELSE s.cursor_time
         IN  start_playback(s, p, start_sec, device)

\* MainWindow.on_skip_start
on_skip_start(s, p, device) ==
    IF s.session = NoSession THEN [s |-> s, p |-> p, raised |-> FALSE]
    ELSE start_playback(set_cursor_time(s, 0), p, 0, device)

\* the time an item of the timestamps list shows: "%7.2f" of start_sec
item_sec(seg) == 10 * PyRound(seg.start_sec, 10)

\* MainWindow.on_timestamp_clicked: "except Exception: pass"
on_timestamp_clicked(s, p, sec, device) ==
    LET r == start_playback(set_cursor_time(s, sec), p, sec, device)
    IN  [r EXCEPT !.raised = FALSE]

\* MainWindow.on_pause
on_pause(p) == [p EXCEPT !.stream = "none", !.timer = FALSE]

\* MainWindow._tick_playback
tick_playback(s, p) ==
    IF p.audio = NoBuffer \/ p.stream = "none"
    THEN [s |-> s, p |-> [p EXCEPT !.timer = FALSE]]
    ELSE LET s1 == set_cursor_time(s, DurationMs(p.frame, Max(1, p.sr)))
         IN  IF p.frame >= Len(p.audio.data)
             THEN [s |-> s1, p |-> stop_playback(p)]
             ELSE [s |-> s1, p |-> p]

\* the state and the player after a command, and the command
CommitPlay(new, p, command) ==
    /\ CommitState(new, command)
    /\ play_stream' = p.stream
    /\ play_timer' = p.timer
    /\ play_audio' = p.audio
    /\ play_sr' = p.sr
    /\ play_frame' = p.frame
    /\ UNCHANGED fl_vars

DevicesIf(read) == IF read THEN Devices ELSE {"ok"}

Play ==
    \E device \in DevicesIf(session # NoSession) :
        LET r == on_play(State, Player, device)
        IN  CommitPlay(r.s, r.p, [cmd |-> "play", escaped |-> r.raised])

SkipStart ==
    \E device \in DevicesIf(session # NoSession) :
        LET r == on_skip_start(State, Player, device)
        IN  CommitPlay(r.s, r.p, [cmd |-> "skip_start", escaped |-> r.raised])

\* a click on an item of the timestamps list
TimestampClick ==
    /\ transcription # NoTranscription
    /\ \E i \in 1..Len(transcription.segments) :
       \E device \in DevicesIf(session # NoSession) :
          LET r == on_timestamp_clicked(State, Player, item_sec(transcription.segments[i]),
                                        device)
          IN  CommitPlay(r.s, r.p, [cmd |-> "timestamp", escaped |-> r.raised])

Pause == CommitPlay(State, on_pause(Player), [cmd |-> "pause", escaped |-> FALSE])

\* the 30 ms timer of the playback
PlayTick ==
    /\ play_timer
    /\ LET r == tick_playback(State, Player)
       IN  CommitPlay(r.s, r.p, [cmd |-> "tick"])

\* the output stream's callback plays one frame; sd.CallbackStop after the
\* last one
PlayCallback ==
    /\ play_stream = "started"
    /\ play_frame' = Min(play_frame + 1, Len(play_audio.data))
    /\ play_stream' = IF play_frame' >= Len(play_audio.data) THEN "stopped" ELSE "started"
    /\ UNCHANGED <<play_timer, play_audio, play_sr>>
    /\ UNCHANGED <<sp_vars, st_vars, wf_vars, mw_vars, rc_vars, fl_vars, pcm_vars>>

\* on_export: a file is chosen and save_wav writes it or raises
Export ==
    /\ session # NoSession
    /\ \E written \in BOOLEAN :
          CommitPlay(State, Player, [cmd |-> "export", escaped |-> FALSE, written |-> written])

\* Record, Stop, Skip-to-end and Clear stop the playback on their way
RecordStopsPlay ==
    \E start_ok \in StartsIf(~recording), clip \in ClipsIf(recording),
       heard \in HearingsIf(StopTranscribes) :
        CommitPlay(on_record(State, apple, start_ok, clip, RecorderRate, heard),
                   stop_playback(Player),
                   [cmd |-> "record", was_recording |-> recording])

StopStopsPlay ==
    \E clip \in ClipsIf(recording), heard \in HearingsIf(StopTranscribes) :
        CommitPlay(on_stop(State, apple, clip, RecorderRate, heard),
                   stop_playback(Player),
                   [cmd |-> "stop", was_recording |-> recording])

SkipEndStopsPlay ==
    CommitPlay(on_skip_end(State),
               IF session = NoSession THEN Player ELSE stop_playback(Player),
               [cmd |-> "skip_end"])

ClearStopsPlay ==
    \E confirmed \in (IF HasContent THEN BOOLEAN ELSE {FALSE}) :
        CommitPlay(on_clear(State, confirmed),
                   IF confirmed THEN stop_playback(Player) ELSE Player,
                   [cmd |-> "clear", cleared |-> confirmed, zoomed |-> Zoomed])

\* no command once MaxPlaySteps have been taken
PlayOpen == steps < MaxPlaySteps

NextPlay ==
    \/ PlayOpen /\ Play
    \/ PlayOpen /\ SkipStart
    \/ PlayOpen /\ TimestampClick
    \/ PlayOpen /\ Pause
    \/ PlayOpen /\ PlayTick
    \/ PlayCallback
    \/ PlayOpen /\ Export
    \/ PlayOpen /\ RecordStopsPlay
    \/ PlayOpen /\ StopStopsPlay
    \/ PlayOpen /\ SkipEndStopsPlay
    \/ PlayOpen /\ ClearStopsPlay
    \/ PlayOpen /\ TimerFires
    \/ PlayOpen /\ MousePress
    \/ PlayOpen /\ Delete
    \/ PlayOpen /\ Import

SpecPlay == Init /\ [][NextPlay]_vars

\* the commands of the claim that start the playback
PlaybackCommands == {"play", "skip_start", "timestamp", "pause", "export"}

\* C29: no exception of an adapter leaves the handler of a command: after
\* Play, Skip-to-start, Pause, Export and a timestamp click the handler has
\* returned normally (Record, Stop, Delete, Import and Clear are modelled
\* with their except branches and return normally by construction).
C29_AsClaimed == last.cmd \in PlaybackCommands => ~last.escaped

\* --------------------------------------------- SpecFlight: recognitions
\* on_transcribe calls transcribe_file on the thread of the event loop, and
\* transcribe_file waits in _spin_until, which runs the run loop in slices
\* of 50 ms until the recognizer has answered.  The handler that asked does
\* not return in between, so the clicks and keys of the user wait for it in
\* the event queue; what the run loop itself delivers is handled inside the
\* wait: the timers, the single-shot timer of on_stop among them, and a file
\* dropped on the window.  Their handlers ask for recognitions of their own,
\* which return before the one that waits.  flight holds the buffers of the
\* calls that have not returned, the innermost last.

\* a click or a key of the user is handled: no handler is waiting in
\* _spin_until
Interactive == flight = <<>>

\* on_stop gets to one of its "self.on_transcribe()"
stop_transcribes(s, clip, sr) ==
    IF s.rerecord_active
    THEN /\ s.recording /\ s.session # NoSession /\ s.rerecord_range # NoRange
         /\ splice_audio(s.session.audio, s.session.sample_rate, s.rerecord_range[1],
                         s.rerecord_range[2], mono(clip)) # ValueError
    ELSE /\ s.recording
         /\ LET p == stop_primary(s, clip, sr) IN ~p.raised /\ p.appended

\* _final_transcribe_if_ready gets to its "self.on_transcribe()"
timer_transcribes(s) == s.session # NoSession /\ Len(s.session.audio.data) > 0

\* _delete_selection gets to its "self.on_transcribe()"
delete_transcribes(s) ==
    /\ s.session # NoSession
    /\ LET sel == delete_range(s) IN
          /\ sel # NoRange
          /\ ~delete_range_empty(sel)
          /\ splice_audio(s.session.audio, s.session.sample_rate, sel[1], sel[2],
                          Buffer(1, <<>>)) # ValueError

\* on_transcribe from the return of transcribe_file on: the answer for the
\* buffer the call took is applied to the state as it is now
on_transcribe_result(s, taken, heard) ==
    [on_transcribe([s EXCEPT !.session = taken], TRUE, heard) EXCEPT !.session = s.session]

\* a handler runs up to its call of transcribe_file, or to its end when it
\* does not get there; pre is the state it has reached
FlightBegin(pre, transcribes, command) ==
    /\ CommitState(pre, command)
    /\ flight' = IF transcribes /\ apple /\ pre.session # NoSession
                 THEN Append(flight, pre.session)
                 ELSE flight
    /\ UNCHANGED pb_vars

FlightRecord ==
    \E start_ok \in StartsIf(~recording), clip \in ClipsIf(recording) :
        FlightBegin(on_record(State, FALSE, start_ok, clip, RecorderRate, "none"),
                    recording /\ stop_transcribes(State, clip, RecorderRate),
                    [cmd |-> "record", was_recording |-> recording])

FlightStop ==
    \E clip \in ClipsIf(recording) :
        FlightBegin(on_stop(State, FALSE, clip, RecorderRate, "none"),
                    stop_transcribes(State, clip, RecorderRate),
                    [cmd |-> "stop", was_recording |-> recording])

\* on_import_audio with a file chosen
FlightImport ==
    \E file \in WavFiles :
        FlightBegin(load_audio_file(State, file, FALSE, "none"), file # Unreadable,
                    [cmd |-> "import", loaded |-> file # Unreadable, zoomed |-> Zoomed])

\* dropEvent with a .wav file, in the event loop or in the run loop of a
\* waiting recognition
FlightDrop ==
    \E file \in WavFiles :
        FlightBegin(load_audio_file(State, file, FALSE, "none"), file # Unreadable,
                    [cmd |-> "drop", loaded |-> file # Unreadable, zoomed |-> Zoomed])

FlightDelete ==
    FlightBegin(delete_selection(State, FALSE, "none"), delete_transcribes(State),
                [cmd |-> "delete", range |-> DeleteRange, before |-> NoCommand])

\* the single-shot timer of on_stop fires, in the event loop or in the run
\* loop of a waiting recognition
FlightTimer ==
    /\ pending > 0
    /\ FlightBegin([State EXCEPT !.pending = @ - 1],
                   timer_transcribes(State), [cmd |-> "timer"])

\* the innermost transcribe_file returns and its on_transcribe goes on
Deliver ==
    /\ flight # <<>>
    /\ \E heard \in Hearings :
          CommitState(on_transcribe_result(State, flight[Len(flight)], heard),
                      [cmd |-> "deliver", nested |-> Len(flight) > 1])
    /\ flight' = SubSeq(flight, 1, Len(flight) - 1)
    /\ UNCHANGED pb_vars

\* no command once MaxFlightSteps have been taken
FlightOpen == steps < MaxFlightSteps

NextFlight ==
    \/ FlightOpen /\ Interactive /\ FlightRecord
    \/ FlightOpen /\ Interactive /\ FlightStop
    \/ FlightOpen /\ Interactive /\ FlightImport
    \/ FlightOpen /\ Interactive /\ FlightDelete
    \/ FlightOpen /\ Interactive /\ SelectText
    \/ FlightOpen /\ Interactive /\ Clear
    \/ FlightOpen /\ FlightTimer
    \/ FlightOpen /\ FlightDrop
    \/ Deliver

SpecFlight == Init /\ [][NextFlight]_vars

\* a transcribe_file returns
Delivered == Len(flight') < Len(flight)

\* C25: a result is applied only while the buffer is the one it was computed
\* from: when a recognition returns, the buffer is still the buffer it took,
\* so no result of an older buffer overwrites the transcript, and the
\* transcript applied is one of the current buffer.
C25_Step ==
    Delivered =>
        /\ flight[Len(flight)] = session
        /\ session' = session
        /\ transcription' \in TranscriptsOf(session_duration(session'))

C25_AsClaimed == [][C25_Step]_vars

\* the chunks the callback delivered since the last start()
ThisCapture == {(rc_sent \o rc_late)[i] : i \in 1..Len(rc_sent \o rc_late)}

\* C32: recordings are isolated: a start() that begins a capture leaves an
\* empty buffer and an empty queue, and the audio a stop() returns holds no
\* chunk delivered before the start() of its capture.
C32_Step ==
    /\ (RecStart /\ rc_stream = "none") => (rc_buffer' = NoBuffer /\ rc_q' = <<>>)
    /\ StopReturns =>
          \A i \in 1..Len(rc_out'.data) : rc_out'.data[i] \in ThisCapture

C32_AsClaimed == [][C32_Step]_vars

\* ------------------------------------------------- SpecPcm: PCM16 encoding
\* A sample is the fraction pcm_in / PcmSteps, PcmSteps a power of two: such
\* a sample and its product with 32767.0 are exact in float32, so the
\* integer arithmetic below is the arithmetic of the program.

RECURSIVE Pow2(_)
Pow2(n) == IF n = 0 THEN 1 ELSE 2 * Pow2(n - 1)

PcmSteps == Pow2(MaxPcmBits)

\* the samples tried: from two steps below -1.0 to two steps above 1.0
PcmSamples == (0 - PcmSteps - 2)..(PcmSteps + 2)

\* ndarray.astype(np.int16) of a float num / den: the fraction is dropped,
\* and the integer kept in 16 bits
astype_int16(num, den) ==
    LET t == IF num >= 0 THEN num \div den ELSE 0 - ((0 - num) \div den)
    IN  ((t + 32768) % 65536) - 32768

\* "(np.clip(audio, -1.0, 1.0) * 32767.0).astype(np.int16)" of
\* MainWindow._save_temp_wav
save_temp_wav_pcm16(n) == astype_int16(np_clip(n, 0 - PcmSteps, PcmSteps) * 32767, PcmSteps)

\* "audio = np.clip(audio, -1.0, 1.0)", "(audio * 32767.0).astype(np.int16)"
\* of audio_editor.save_wav
save_wav_pcm16(n) ==
    LET audio == np_clip(n, 0 - PcmSteps, PcmSteps)
    IN  astype_int16(audio * 32767, PcmSteps)

\* AudioRecorder.float_to_int16
float_to_int16(n) ==
    LET audio == np_clip(n, 0 - PcmSteps, PcmSteps)
    IN  astype_int16(audio * 32767, PcmSteps)

PcmInit ==
    /\ apple = TRUE
    /\ RecorderIdle /\ PlaybackIdle /\ flight = <<>>
    /\ SpliceIdle
    /\ SelIdle
    /\ ViewIdle
    /\ ControllerIdle
    /\ pcm_in \in PcmSamples
    /\ pcm_by = "none"
    /\ pcm_out = 0

Encoded(by, value) ==
    /\ pcm_by = "none"
    /\ pcm_by' = by
    /\ pcm_out' = value
    /\ UNCHANGED <<pcm_in, sp_vars, st_vars, wf_vars, mw_vars, rc_vars, pb_vars, fl_vars>>

\* on_export writes the sample
ExportEncodes == Encoded("save_wav", save_wav_pcm16(pcm_in))

\* AudioRecorder.save_wav writes the sample
RecorderEncodes == Encoded("float_to_int16", float_to_int16(pcm_in))

\* on_transcribe writes the sample to the file it hands to the recognizer
TempEncodes == Encoded("_save_temp_wav", save_temp_wav_pcm16(pcm_in))

PcmNext ==
    \/ ExportEncodes
    \/ RecorderEncodes
    \/ TempEncodes

SpecPcm == PcmInit /\ [][PcmNext]_vars

\* the sample clamped to [-1, 1], in steps
PcmClamped == Clamp(pcm_in, 0 - PcmSteps, PcmSteps)

\* C31: in every encoder the PCM16 value of a sample x is clamp(x) * 32767
\* rounded to the nearest integer: it is at most one half away from the
\* product.
C31_AsClaimed ==
    pcm_by # "none" =>
        /\ 2 * (pcm_out * PcmSteps - PcmClamped * 32767) <= PcmSteps
        /\ 2 * (PcmClamped * 32767 - pcm_out * PcmSteps) <= PcmSteps

\* --------------------------- SpecArm: the buffer replaced under a capture
\* The controller with the commands that arm a re-record, capture and
\* replace the buffer, and with a file whose sample rate is not the
\* recorder's.

\* a mono file of two frames at two frames per second
OtherRateFile == WavFile(Buffer(1, <<1, 1>>), 2 * RecorderRate)

ArmFiles == {WavFile(Buffer(1, <<1, 1>>), RecorderRate), OtherRateFile}

\* on_import_audio with a file chosen, or dropEvent with a .wav file
ImportFile ==
    \E file \in ArmFiles : \E heard \in HearingsIf(TRUE) :
        Commit(load_audio_file(State, file, apple, heard),
               [cmd |-> "import", loaded |-> TRUE, zoomed |-> Zoomed])

\* no command once MaxArmSteps have been taken
ArmOpen == steps < MaxArmSteps

NextArm ==
    \/ ArmOpen /\ Record
    \/ ArmOpen /\ Stop
    \/ ArmOpen /\ TimerFires
    \/ ArmOpen /\ SelectText
    \/ ArmOpen /\ ImportFile
    \/ ArmOpen /\ Clear

SpecArm == Init /\ [][NextArm]_vars

\* the buffer was replaced by the last command, under a capture that was
\* armed before it (only on_record arms)
ReplacedUnderArm ==
    /\ last.cmd = "import" /\ last.loaded
    /\ recording
    /\ rerecord_active /\ rerecord_range # NoRange

\* the step puts a clip into the buffer at the armed range
SplicedAtArmedRange ==
    /\ session' # session
    /\ \E clip \in Clips :
          session'.audio =
              splice_audio(session.audio, session.sample_rate,
                           rerecord_range[1], rerecord_range[2],
                           Adapted(clip, session.audio))

C33_Step == (ReplacedUnderArm /\ StopsCapture(last')) => ~SplicedAtArmedRange

\* C33: an armed range is spliced only into the buffer it was resolved
\* against: the Stop of a capture that was armed before an import replaced
\* the buffer does not splice the clip at that range into the imported
\* buffer.
C33_AsClaimed == [][C33_Step]_vars

\* C34: a confirmed Clear leaves the initial idle state: no session, no
\* transcription, no selection, no capture, the cursor at 0 and re-record
\* not armed.
C34_AsClaimed ==
    (last.cmd = "clear" /\ last.cleared) =>
        /\ session = NoSession
        /\ transcription = NoTranscription
        /\ selection_time = NoRange
        /\ ~recording
        /\ cursor_time = 0
        /\ ~rerecord_active /\ rerecord_range = NoRange

\* C35: the words the waveform holds are those of the current transcript:
\* once a transcription has completed, word_items is the start and end of
\* every segment of the TranscriptionResult in force, and is empty under the
\* zero-segment sentinel.
C35_AsClaimed ==
    transcription # NoTranscription => word_items = words_of(transcription)

\* the un-armed Stop of a capture finds a non-empty buffer and the cursor at
\* its end: on_stop appends the clip
AppendsClip ==
    /\ StopsCapture(last')
    /\ ~rerecord_active
    /\ session # NoSession
    /\ Len(session.audio.data) > 0
    /\ cursor_at_end(State)

\* the frames the step added to the buffer
FramesAdded == Len(session'.audio.data) - Len(session.audio.data)

C36_Step ==
    /\ AppendsClip =>
          /\ session.sample_rate = RecorderRate
          /\ session_duration(session') =
                session_duration(session) + DurationMs(FramesAdded, RecorderRate)
    /\ ArmedStop(last') => session.sample_rate = RecorderRate

\* C36: a clip is appended to or spliced into a buffer of its own sample
\* rate, the recorder's, and after an append the buffer lasts as long as
\* the old buffer and the clip together.
C36_AsClaimed == [][C36_Step]_vars

====
